---- MODULE Spec2Model ----
(***************************************************************************)
(* A model of the chladni package: the ValueMap grid (core.py), the        *)
(* pattern kernel calculate_chladni_pattern (core.py) and the .chl codec   *)
(* (file_io.py).                                                           *)
(*                                                                         *)
(* Numbers.  A Python float is modelled by an integer-valued double; a     *)
(* float32 (a cell of the numpy buffer, a 'f' field of the file) is the    *)
(* value F32 gives, i.e. the nearest number with a 24-bit significand,     *)
(* ties to even.  2^24+1 is the smallest positive integer F32 changes.     *)
(***************************************************************************)
EXTENDS Integers, Sequences, FiniteSets, TLC

VARIABLES
    vm,      \* the ValueMap object under test: _width, _height, _bits
    res      \* what the last ValueMap call did: its name, arguments, outcome

\* one call of calculate_chladni_pattern(value_map, wave_infos, width, height,
\* stop_event)
VARIABLES
    value_map,   \* the grid argument
    wave_infos,  \* the list of WaveInfo
    req_width,   \* the width argument
    req_height,  \* the height argument
    stop_event,  \* "None" (no event passed), "clear" or "set"
    pc,          \* "call", "row" (line 199), "col" (line 202), "cell"
                 \* (line 204), "rowend" (line 233), "done" (returned),
                 \* "raised"
    row_y,       \* loop variable y
    col_x,       \* loop variable x
    val_max,     \* the running peak, returned at the end
    kerr,        \* the exception the call raised, "none" otherwise
    written,     \* history: buffer positions in the order set_value wrote them
    entry,       \* history: how the call found the grid and the signal
    stop_at      \* history: cells written when the signal was set, -1 if never

\* one save_chl_file(filepath, data, save_level_map) followed by load_chl_file
VARIABLES
    doc,             \* the ChladniData handed to save_chl_file
    save_level_map,  \* the flag handed to save_chl_file
    file,            \* the bytes of the file, inside the gzip wrapper
    saved,           \* outcome of save_chl_file: "" before, then "none" or the error
    loaded,          \* outcome of load_chl_file: [err, data]
    cpc              \* "start", "saved", "loaded"

\* a ChladniSimulator and the outcome of the last call on it
VARIABLES
    sim,    \* the simulator's fields
    sres    \* the last call: [op, a, b, ret, err]

\* a ColorMap, the last colour it returned and the last image rendered
VARIABLES
    cm,     \* [name, max_iter, rec_max_col]
    cres,   \* the last call on the colour map: [op, v, rgb]
    img     \* the last image generate_bitmap_pil returned

\* the ChladniApp window: its simulator is sim
VARIABLES
    app,      \* [render_thread, stop_render_event, render_queue, timers]
    workers,  \* the render threads: "unborn", "computing" or "dead"
    gres      \* the handler or thread that ran last: [op, refused]

vmVars == <<vm, res>>

gVars == <<app, workers, gres>>

eVars == <<sim, sres>>

vVars == <<cm, cres, img>>

cVars == <<doc, save_level_map, file, saved, loaded, cpc>>

kVars == <<value_map, wave_infos, req_width, req_height, stop_event, pc,
           row_y, col_x, val_max, kerr, written, entry, stop_at>>

nonVM == <<kVars, cVars, eVars, vVars, gVars>>

nonKernel == <<vmVars, cVars, eVars, vVars, gVars>>

nonCodec == <<vmVars, kVars, eVars, vVars, gVars>>

nonEngine == <<vmVars, kVars, cVars, vVars, gVars>>

nonVisual == <<kVars, cVars, eVars, gVars>>

nonGui == <<vmVars, kVars, cVars, vVars, sres>>

vars == <<vmVars, kVars, cVars, eVars, vVars, gVars>>

-----------------------------------------------------------------------------
(* Bounds of the model *)

MaxDim == 2          \* grid widths and heights run over 0..MaxDim

MaxCells == 4        \* and no grid holds more than MaxCells cells

-----------------------------------------------------------------------------
(* Arithmetic helpers *)

Max(a, b) == IF a >= b THEN a ELSE b

Min(a, b) == IF a <= b THEN a ELSE b

Abs(a) == IF a < 0 THEN -a ELSE a

RECURSIVE Pow2(_)
Pow2(n) == IF n = 0 THEN 1 ELSE 2 * Pow2(n - 1)

RECURSIVE Log2(_)
Log2(a) == IF a < 2 THEN 0 ELSE 1 + Log2(a \div 2)

\* float32 significand width (numpy float32 / struct format 'f')
SigBits == 24

\* The value a float32 holds after an integer-valued double n is stored in it.
F32(n) ==
    LET a == Abs(n)
        e == Log2(a)
    IN  IF e < SigBits THEN n
        ELSE LET ulp == Pow2(e - (SigBits - 1))
                 q   == a \div ulp
                 r   == a % ulp
                 up  == (2 * r > ulp) \/ (2 * r = ulp /\ q % 2 = 1)
                 m   == (IF up THEN q + 1 ELSE q) * ulp
             IN  IF n < 0 THEN -m ELSE m

\* A double no float32 holds, and the float32 next to it.
BigOdd == Pow2(SigBits) + 1

-----------------------------------------------------------------------------
(* ValueMap, core.py *)

\* the object before __init__ calls set_size: _width = 0, _height = 0, _bits = None
NoMap == [width |-> 0, height |-> 0, present |-> FALSE, cells |-> <<>>]

\* np.zeros((new_height, new_width), dtype=np.float32), row-major
Zeros(h, w) == [i \in 1..(h * w) |-> 0]

\* position of _bits[y, x] in the row-major buffer (1-based)
Idx(m, x, y) == y * m.width + x + 1

\* mutant: a zero-sized grid keeps an (empty) buffer instead of None
change_size_keepbuf(m, new_width, new_height) ==
    [width |-> new_width, height |-> new_height,
     present |-> TRUE, cells |-> Zeros(new_height, new_width)]

\* mutant: the buffer is reallocated in place, as Pascal's ReallocMem does,
\* so the cells that fit keep their content
change_size_realloc(m, new_width, new_height) ==
    IF new_width = 0 \/ new_height = 0
    THEN [width |-> new_width, height |-> new_height,
          present |-> FALSE, cells |-> <<>>]
    ELSE [width |-> new_width, height |-> new_height,
          present |-> TRUE,
          cells |-> [i \in 1..(new_height * new_width) |->
                        IF i \in DOMAIN m.cells THEN m.cells[i] ELSE 0]]

change_size(m, new_width, new_height) ==
    IF new_width = 0 \/ new_height = 0
    THEN [width |-> new_width, height |-> new_height,
          present |-> FALSE, cells |-> <<>>]
    ELSE [width |-> new_width, height |-> new_height,
          present |-> TRUE, cells |-> Zeros(new_height, new_width)]

\* returns the object after the call and the bool the call returns
set_size(m, new_width, new_height) ==
    LET w == Max(0, new_width)
        h == Max(0, new_height)
        changed == (w # m.width) \/ (h # m.height)
    IN  [map |-> IF changed THEN change_size(m, w, h) ELSE m,
         changed |-> changed]

\* ValueMap(width, height)
NewValueMap(width, height) == set_size(NoMap, width, height).map

InBounds(m, x, y) == 0 <= y /\ y < m.height /\ 0 <= x /\ x < m.width

\* err: "none", "ValueError" (uninitialized), "IndexError" (out of bounds)
get_value(m, x, y) ==
    IF ~m.present THEN [err |-> "ValueError", ret |-> 0]
    ELSE IF ~InBounds(m, x, y) THEN [err |-> "IndexError", ret |-> 0]
    ELSE [err |-> "none", ret |-> m.cells[Idx(m, x, y)]]

\* mutant: x and y swapped when the cell is addressed
set_value_transposed(m, x, y, value) ==
    IF ~m.present THEN [err |-> "ValueError", map |-> m]
    ELSE IF ~InBounds(m, x, y) THEN [err |-> "IndexError", map |-> m]
    ELSE [err |-> "none",
          map |-> [m EXCEPT !.cells[x * m.height + y + 1] = F32(value)]]

set_value(m, x, y, value) ==
    IF ~m.present THEN [err |-> "ValueError", map |-> m]
    ELSE IF ~InBounds(m, x, y) THEN [err |-> "IndexError", map |-> m]
    ELSE [err |-> "none",
          map |-> [m EXCEPT !.cells[Idx(m, x, y)] = F32(value)]]

get_scanline(m, y) ==
    IF ~m.present THEN [err |-> "ValueError", row |-> <<>>]
    ELSE IF ~(0 <= y /\ y < m.height) THEN [err |-> "IndexError", row |-> <<>>]
    ELSE [err |-> "none",
          row |-> [i \in 1..m.width |-> m.cells[y * m.width + i]]]

\* mutant: clear leaves the buffer as it is
clear_noop(m) == m

clear(m) == IF m.present THEN [m EXCEPT !.cells = [i \in DOMAIN m.cells |-> 0]]
            ELSE m

delete(m) == set_size(m, 0, 0).map

\* key is (y, x) when pair, anything else otherwise
getitem(m, pair, y, x) ==
    IF pair THEN get_value(m, x, y) ELSE [err |-> "TypeError", ret |-> 0]

setitem(m, pair, y, x, value) ==
    IF pair THEN set_value(m, x, y, value) ELSE [err |-> "TypeError", map |-> m]

-----------------------------------------------------------------------------
(* calculate_chladni_pattern, core.py: the arithmetic                      *)
(*                                                                         *)
(* A WaveInfo is [on, amplitude, frequency, phase]: amplitude an integer,  *)
(* frequency in hundredths, phase in whole degrees.  Cosines are fixed     *)
(* point with 6 fractional bits, so v below is in units of 2^-12 and so is *)
(* every cell the kernel writes; F32 does not depend on that unit.         *)
(***************************************************************************)

\* MIN_FREQ_RATIO = 0.1, in hundredths
MIN_FREQ_RATIO == 10

ITERATION_MULTIPLIER == 256

\* the signal is polled inside a row at the columns x with x % 64 == 0
POLL_COLUMNS == 64

\* round(64 * cos(a degrees)) for a = 0..90
CosTable ==
    << 64, 64, 64, 64, 64, 64, 64, 64, 63, 63, 63, 63, 63, 62, 62, 62, 62, 61,
       61, 61, 60, 60, 59, 59, 58, 58, 58, 57, 57, 56, 55, 55, 54, 54, 53, 52,
       52, 51, 50, 50, 49, 48, 48, 47, 46, 45, 44, 44, 43, 42, 41, 40, 39, 39,
       38, 37, 36, 35, 34, 33, 32, 31, 30, 29, 28, 27, 26, 25, 24, 23, 22, 21,
       20, 19, 18, 17, 15, 14, 13, 12, 11, 10, 9, 8, 7, 6, 4, 3, 2, 1, 0 >>

\* math.cos of an angle given in degrees
Cos64(d) ==
    LET a == d % 360
        b == IF a > 180 THEN 360 - a ELSE a
    IN  IF b > 90 THEN -CosTable[180 - b + 1] ELSE CosTable[b + 1]

\* q * rx in degrees: q = 2*pi*frequency, rx = x * (1.0 / width)
Turn(frequency, x, width) == (360 * frequency * x) \div (100 * width)

\* info.amplitude * term_x * term_y
Term(info, x, y, width, height) ==
    info.amplitude
      * Cos64(Turn(info.frequency, x, width) + info.phase)
      * Cos64(Turn(info.frequency, y, height) + info.phase)

\* mutant: a frequency of exactly MIN_FREQ_RATIO is skipped too
Skipped_inclusive(info) == ~info.on \/ info.frequency <= MIN_FREQ_RATIO

\* the test that makes the loop over wave_infos `continue`
Skipped(info) == ~info.on \/ info.frequency < MIN_FREQ_RATIO

\* the loop over wave_infos: v after the terms of infos were added to v0
RECURSIVE Accumulate(_, _, _, _, _, _)
Accumulate(v0, infos, x, y, width, height) ==
    IF infos = <<>> THEN v0
    ELSE LET info == Head(infos)
             v1 == IF Skipped(info) THEN v0
                   ELSE v0 + Term(info, x, y, width, height)
         IN  Accumulate(v1, Tail(infos), x, y, width, height)

\* current_val = abs(v) * ITERATION_MULTIPLIER
CurrentVal(infos, x, y, width, height) ==
    Abs(Accumulate(0, infos, x, y, width, height)) * ITERATION_MULTIPLIER

\* mutant: the grid is resized only when both dimensions differ
SizeDiffers_both(m, width, height) == m.width # width /\ m.height # height

\* value_map.width != width or value_map.height != height
SizeDiffers(m, width, height) == m.width # width \/ m.height # height

\* the first statement of the kernel: resize, or clear in place
Prepare(m, width, height) ==
    IF SizeDiffers(m, width, height) THEN set_size(m, width, height).map
    ELSE clear(m)

\* mutant: the signal always reads as not set
IsSet_never(ev) == FALSE

\* stop_event.is_set()
IsSet(ev) == ev = "set"

\* lines 199 and 233: stop_event and stop_event.is_set()
RowPoll(ev) == ev # "None" /\ IsSet(ev)

\* mutant: the signal is not polled inside a row
ColPoll_rows_only(ev, x) == FALSE

\* line 202: stop_event and x % 64 == 0 and stop_event.is_set()
ColPoll(ev, x) == ev # "None" /\ x % POLL_COLUMNS = 0 /\ IsSet(ev)

\* the kernel's variables while no call is modelled
KIdle ==
    /\ value_map = NoMap /\ wave_infos = <<>>
    /\ req_width = 0 /\ req_height = 0
    /\ stop_event = "None" /\ pc = "idle"
    /\ row_y = 0 /\ col_x = 0 /\ val_max = 0 /\ kerr = "none"
    /\ written = <<>>
    /\ entry = [resized |-> FALSE, dirty |-> FALSE, stop |-> "None"]
    /\ stop_at = -1

-----------------------------------------------------------------------------
(* The .chl codec, file_io.py.  A file is the sequence of the bytes that   *)
(* pass through the gzip wrapper.  A ChladniData is                        *)
(* [wave_infos, map_index, width, height, normalize, value_map], its       *)
(* value_map being NoGrid (None) or Grid(m) for a ValueMap m.  The float   *)
(* fields of a WaveInfo are integer-valued doubles here.                   *)
(***************************************************************************)

CHL_ID_EXPECTED == <<164, 67, 72, 76>>      \* b'\xA4CHL'

VERSION_STANDARD == 10

VERSION_WITH_LEVEL_MAP == 11

NoGrid == [some |-> FALSE, map |-> NoMap]

Grid(m) == [some |-> TRUE, map |-> m]

NoData == [wave_infos |-> <<>>, map_index |-> 0, width |-> 0, height |-> 0,
           normalize |-> FALSE, value_map |-> NoGrid]

\* struct.pack('<H', v)
PackH(v) == <<v % 256, v \div 256>>

\* struct.pack('<I', v); v is in range where PackI is used
PackI(v) == <<v % 256, (v \div 256) % 256, (v \div 65536) % 256, v \div 16777216>>

\* struct.pack('<I', v) raises struct.error unless 0 <= v <= 4294967295
PackIFails(v) == v < 0

\* struct.pack('f', n): the IEEE 754 single nearest to n, little-endian
PackF(n) ==
    LET f == F32(n)
        a == Abs(f)
        e == Log2(a)
        mant == IF e <= 23 THEN (a - Pow2(e)) * Pow2(23 - e)
                ELSE (a - Pow2(e)) \div Pow2(e - 23)
        biased == e + 127
        s == IF f < 0 THEN 1 ELSE 0
    IN  IF a = 0 THEN <<0, 0, 0, 0>>
        ELSE << mant % 256, (mant \div 256) % 256,
                (biased % 2) * 128 + mant \div 65536,
                s * 128 + biased \div 2 >>

\* struct.pack('?', b) and struct.pack('B', 1 if b else 0)
PackBool(b) == <<IF b THEN 1 ELSE 0>>

\* mutant: the version is read as one byte
UnpackH_low_byte(b) == b[1]

\* struct.unpack('<H', b)[0], struct.unpack('<I', b)[0]
UnpackH(b) == b[1] + 256 * b[2]

UnpackI(b) == b[1] + 256 * b[2] + 65536 * b[3] + 16777216 * b[4]

\* struct.unpack('f', b)[0], for the singles that hold an integer
UnpackF(b) ==
    LET s == b[4] \div 128
        biased == (b[4] % 128) * 2 + b[3] \div 128
        mant == (b[3] % 128) * 65536 + b[2] * 256 + b[1]
        e == biased - 127
        sig == 8388608 + mant
        a == IF e >= 23 THEN sig * Pow2(e - 23) ELSE sig \div Pow2(23 - e)
    IN  IF biased = 0 THEN 0 ELSE IF s = 1 THEN -a ELSE a

\* mutant: frequency and phase are written in the wrong order
write_wave_info_swapped(wi) ==
    PackBool(wi.on) \o PackF(wi.amplitude) \o PackF(wi.phase) \o PackF(wi.frequency)

\* _write_wave_info
write_wave_info(wi) ==
    PackBool(wi.on) \o PackF(wi.amplitude) \o PackF(wi.frequency) \o PackF(wi.phase)

RECURSIVE WriteWaves(_)
WriteWaves(infos) ==
    IF infos = <<>> THEN <<>>
    ELSE write_wave_info(Head(infos)) \o WriteWaves(Tail(infos))

\* contiguous_bits.tobytes()
RECURSIVE CellBytes(_)
CellBytes(cells) ==
    IF cells = <<>> THEN <<>>
    ELSE PackF(Head(cells)) \o CellBytes(Tail(cells))

\* mutant: the flag alone selects the version
SaveVersion_flag_only(data, slm) ==
    IF slm THEN VERSION_WITH_LEVEL_MAP ELSE VERSION_STANDARD

\* version chosen by save_chl_file
SaveVersion(data, slm) ==
    IF slm /\ data.value_map.some THEN VERSION_WITH_LEVEL_MAP
    ELSE VERSION_STANDARD

\* save_chl_file: [err, file]; when a pack raises, the file keeps the bytes
\* written before it
save_chl_file(data, slm) ==
    LET version == SaveVersion(data, slm)
        b1 == CHL_ID_EXPECTED \o PackH(version) \o PackI(Len(data.wave_infos))
    IN  IF PackIFails(data.map_index)
        THEN [err |-> "struct.error", file |-> b1]
        ELSE IF PackIFails(data.width)
        THEN [err |-> "struct.error", file |-> b1 \o PackI(data.map_index)]
        ELSE IF PackIFails(data.height)
        THEN [err |-> "struct.error",
              file |-> b1 \o PackI(data.map_index) \o PackI(data.width)]
        ELSE LET b2 == b1 \o PackI(data.map_index) \o PackI(data.width)
                          \o PackI(data.height) \o PackBool(data.normalize)
                          \o WriteWaves(data.wave_infos)
             IN  [err |-> "none",
                  file |-> IF version = VERSION_WITH_LEVEL_MAP
                              /\ data.value_map.some
                              /\ data.value_map.map.present
                           THEN b2 \o CellBytes(data.value_map.map.cells)
                           ELSE b2]

\* gz_f.read(n) at offset pos: the bytes that are there, at most n
Read(f, pos, n) == SubSeq(f, pos + 1, Min(pos + n, Len(f)))

\* _read_wave_info, k times: [err, waves, pos]
RECURSIVE ReadWaves(_, _, _)
ReadWaves(f, pos, k) ==
    IF k = 0 THEN [err |-> "none", waves |-> <<>>, pos |-> pos]
    ELSE IF Len(Read(f, pos, 1)) # 1 \/ Len(Read(f, pos + 1, 4)) # 4
            \/ Len(Read(f, pos + 5, 4)) # 4 \/ Len(Read(f, pos + 9, 4)) # 4
    THEN [err |-> "struct.error", waves |-> <<>>, pos |-> pos]
    ELSE LET wi == [on |-> Read(f, pos, 1)[1] # 0,
                    amplitude |-> UnpackF(Read(f, pos + 1, 4)),
                    frequency |-> UnpackF(Read(f, pos + 5, 4)),
                    phase |-> UnpackF(Read(f, pos + 9, 4))]
             rest == ReadWaves(f, pos + 13, k - 1)
         IN  [err |-> rest.err, waves |-> <<wi>> \o rest.waves, pos |-> rest.pos]

\* np.frombuffer(raw, dtype=np.float32)
RECURSIVE Floats(_)
Floats(raw) ==
    IF Len(raw) < 4 THEN <<>>
    ELSE <<UnpackF(SubSeq(raw, 1, 4))>> \o Floats(SubSeq(raw, 5, Len(raw)))

\* mutant: the length of the payload read is not checked
LoadLevelMap_unchecked(f, pos, width, height) ==
    LET m == NewValueMap(width, height)
    IN  [err |-> "none",
         map |-> [m EXCEPT !.present = TRUE,
                           !.cells = Floats(Read(f, pos, width * height * 4))]]

\* the version-11 branch of load_chl_file, lines 94-106: [err, map]
LoadLevelMap(f, pos, width, height) ==
    LET m == NewValueMap(width, height)
        expected_bytes == width * height * 4
        raw == Read(f, pos, expected_bytes)
    IN  IF width > 0 /\ height > 0
        THEN IF Len(raw) # expected_bytes
             THEN [err |-> "IOError", map |-> m]
             ELSE [err |-> "none",
                   map |-> [m EXCEPT !.present = TRUE, !.cells = Floats(raw)]]
        ELSE \* _bits = np.array([]).reshape((height, width)): an empty array
             [err |-> "none", map |-> [m EXCEPT !.present = TRUE, !.cells = <<>>]]

Failed(e) == [err |-> e, data |-> NoData]

\* load_chl_file: [err, data]
load_chl_file(f) ==
    IF Read(f, 0, 4) # CHL_ID_EXPECTED THEN Failed("ValueError")
    ELSE IF Len(Read(f, 4, 2)) # 2 THEN Failed("struct.error")
    ELSE LET version == UnpackH(Read(f, 4, 2))
         IN
    IF ~(version = VERSION_STANDARD \/ version = VERSION_WITH_LEVEL_MAP)
    THEN Failed("ValueError")
    ELSE IF Len(Read(f, 6, 4)) # 4 \/ Len(Read(f, 10, 4)) # 4
            \/ Len(Read(f, 14, 4)) # 4 \/ Len(Read(f, 18, 4)) # 4
            \/ Len(Read(f, 22, 1)) # 1
    THEN Failed("struct.error")
    ELSE LET capacity == UnpackI(Read(f, 6, 4))
             map_index == UnpackI(Read(f, 10, 4))
             width == UnpackI(Read(f, 14, 4))
             height == UnpackI(Read(f, 18, 4))
             normalize == Read(f, 22, 1)[1] > 0
             w == ReadWaves(f, 23, capacity)
         IN
    IF w.err # "none" THEN Failed(w.err)
    ELSE LET g == IF version = VERSION_WITH_LEVEL_MAP
                  THEN LoadLevelMap(f, w.pos, width, height)
                  ELSE [err |-> "none", map |-> NoMap]
         IN
    IF g.err # "none" THEN Failed(g.err)
    ELSE [err |-> "none",
          data |-> [wave_infos |-> w.waves, map_index |-> map_index,
                    width |-> width, height |-> height,
                    normalize |-> normalize,
                    value_map |-> IF version = VERSION_WITH_LEVEL_MAP
                                  THEN Grid(g.map) ELSE NoGrid]]

\* the codec's variables while no file is modelled
CIdle ==
    /\ doc = NoData /\ save_level_map = FALSE /\ file = <<>>
    /\ saved = "" /\ loaded = Failed("") /\ cpc = "idle"

\* the ValueMap under test while none is modelled
VMIdle ==
    /\ vm = NoMap
    /\ res = [op |-> "idle", a |-> 0, b |-> 0, v |-> 0, err |-> "none",
              ret |-> 0, changed |-> FALSE, row |-> <<>>, dirty |-> FALSE]

\* the simulator while none is modelled
EIdle ==
    /\ sim = [filename |-> ""]
    /\ sres = [op |-> "idle"]

\* the colour map and the renderer while none is modelled
\* the window's variables while no window is modelled
GIdle ==
    /\ app = [render_thread |-> 0, stop_render_event |-> FALSE,
              render_queue |-> <<>>, timers |-> 0]
    /\ workers = <<>>
    /\ gres = [op |-> "idle", refused |-> FALSE]

VIdle ==
    /\ cm = [name |-> ""]
    /\ cres = [op |-> "idle"]
    /\ img = [width |-> 0, height |-> 0, pixels |-> <<>>]

-----------------------------------------------------------------------------
(* The ValueMap state machine: one action per public operation *)

Sizes  == -1..MaxDim
Fits(w, h) == Max(0, w) * Max(0, h) <= MaxCells
Coords == -1..MaxDim
Values == {1, BigOdd}

\* true when the grid holds a non-zero cell
Dirty(m) == \E i \in DOMAIN m.cells : m.cells[i] # 0

\* the record of a call: dirty tells whether the grid held data before it
Res(op, a, b, v, err, ret, changed, row) ==
    [op |-> op, a |-> a, b |-> b, v |-> v, err |-> err, ret |-> ret,
     changed |-> changed, row |-> row, dirty |-> Dirty(vm)]

VMInit ==
    \E w \in Sizes, h \in Sizes :
        /\ Fits(w, h)
        /\ vm = NewValueMap(w, h)
        /\ res = [op |-> "init", a |-> w, b |-> h, v |-> 0, err |-> "none",
                  ret |-> 0, changed |-> FALSE, row |-> <<>>, dirty |-> FALSE]
        /\ KIdle /\ CIdle /\ EIdle /\ VIdle /\ GIdle

VMConstruct ==
    \E w \in Sizes, h \in Sizes :
        /\ Fits(w, h)
        /\ vm' = NewValueMap(w, h)
        /\ res' = Res("init", w, h, 0, "none", 0, FALSE, <<>>)
        /\ UNCHANGED nonVM

VMSetSize ==
    \E w \in Sizes, h \in Sizes :
        LET r == set_size(vm, w, h)
        IN  /\ Fits(w, h)
            /\ vm' = r.map
            /\ res' = Res("set_size", w, h, 0, "none", 0, r.changed, <<>>)
            /\ UNCHANGED nonVM

VMSetWidth ==
    \E w \in Sizes :
        /\ Fits(w, vm.height)
        /\ vm' = set_size(vm, w, vm.height).map
        /\ res' = Res("width", w, 0, 0, "none", 0, FALSE, <<>>)
        /\ UNCHANGED nonVM

VMSetHeight ==
    \E h \in Sizes :
        /\ Fits(vm.width, h)
        /\ vm' = set_size(vm, vm.width, h).map
        /\ res' = Res("height", h, 0, 0, "none", 0, FALSE, <<>>)
        /\ UNCHANGED nonVM

VMClear ==
    /\ vm' = clear(vm)
    /\ res' = Res("clear", 0, 0, 0, "none", 0, FALSE, <<>>)
    /\ UNCHANGED nonVM

VMDelete ==
    /\ vm' = delete(vm)
    /\ res' = Res("delete", 0, 0, 0, "none", 0, FALSE, <<>>)
    /\ UNCHANGED nonVM

VMGetValue ==
    \E x \in Coords, y \in Coords :
        LET r == get_value(vm, x, y)
        IN  /\ vm' = vm
            /\ res' = Res("get_value", x, y, 0, r.err, r.ret, FALSE, <<>>)
            /\ UNCHANGED nonVM

VMSetValue ==
    \E x \in Coords, y \in Coords, v \in Values :
        LET r == set_value(vm, x, y, v)
        IN  /\ vm' = r.map
            /\ res' = Res("set_value", x, y, v, r.err, 0, FALSE, <<>>)
            /\ UNCHANGED nonVM

VMGetScanline ==
    \E y \in Coords :
        LET r == get_scanline(vm, y)
        IN  /\ vm' = vm
            /\ res' = Res("get_scanline", 0, y, 0, r.err, 0, FALSE, r.row)
            /\ UNCHANGED nonVM

VMGetItem ==
    \E pair \in BOOLEAN, x \in Coords, y \in Coords :
        LET r == getitem(vm, pair, y, x)
        IN  /\ vm' = vm
            /\ res' = Res("getitem", x, y, 0, r.err, r.ret, FALSE, <<>>)
            /\ UNCHANGED nonVM

VMSetItem ==
    \E pair \in BOOLEAN, x \in Coords, y \in Coords, v \in Values :
        LET r == setitem(vm, pair, y, x, v)
        IN  /\ vm' = r.map
            /\ res' = Res("setitem", x, y, v, r.err, 0, FALSE, <<>>)
            /\ UNCHANGED nonVM

VMNext ==
    \/ VMConstruct
    \/ VMSetSize
    \/ VMSetWidth
    \/ VMSetHeight
    \/ VMClear
    \/ VMDelete
    \/ VMGetValue
    \/ VMSetValue
    \/ VMGetScanline
    \/ VMGetItem
    \/ VMSetItem

SpecVM == VMInit /\ [][VMNext]_vars

\* the document that carries grid m, as test_save_value_map_zero_dimensions
\* builds it
DocOf(m) ==
    [wave_infos |-> <<>>, map_index |-> 0, width |-> m.width,
     height |-> m.height, normalize |-> FALSE, value_map |-> Grid(m)]

\* the grid is saved with save_level_map and replaced by the grid of the
\* document load_chl_file returns for that file
VMLoad ==
    LET l == load_chl_file(save_chl_file(DocOf(vm), TRUE).file)
    IN  /\ vm' = l.data.value_map.map
        /\ res' = Res("load", vm.width, vm.height, 0, l.err, 0, FALSE, <<>>)
        /\ UNCHANGED nonVM

SpecVMLoad == VMInit /\ [][VMNext \/ VMLoad]_vars

-----------------------------------------------------------------------------
(* Claims about ValueMap *)

AllZero(m) == \A i \in DOMAIN m.cells : m.cells[i] = 0

\* C1: after any sequence of ValueMap operations the buffer holds exactly
\* width*height cells, and the buffer is absent exactly when width = 0 or
\* height = 0.
C1_BufferMatchesSize ==
    /\ Len(vm.cells) = vm.width * vm.height
    /\ vm.present <=> ~(vm.width = 0 \/ vm.height = 0)

\* a grid that was filled and then resized through the height setter
C1_Witness ==
    /\ res.op = "height" /\ res.dirty
    /\ vm.present /\ vm.width = 2 /\ vm.height = 2

\* C2: set_size(w, h) clamps negative w and h to 0; it returns true exactly
\* when the clamped pair differs from the current size, and then the grid has
\* the clamped size and every cell is 0; otherwise it returns false and the
\* grid is left as it was.
C2_SetSize ==
    [][ res'.op = "set_size" =>
          LET w == IF res'.a < 0 THEN 0 ELSE res'.a
              h == IF res'.b < 0 THEN 0 ELSE res'.b
              differs == <<w, h>> # <<vm.width, vm.height>>
          IN  /\ res'.changed <=> differs
              /\ differs => /\ vm'.width = w /\ vm'.height = h
                             /\ Len(vm'.cells) = w * h
                             /\ AllZero(vm')
              /\ ~differs => vm' = vm
      ]_vars

\* a grid holding data was resized to a non-empty grid, from a negative request
\* clamped on one axis in an earlier call or not: here both sizes are positive
C2_Witness ==
    /\ res.op = "set_size" /\ res.changed /\ res.dirty
    /\ vm.present /\ vm.width = 1 /\ vm.height = 2

\* C3: on a grid with non-zero width and height, get_value, set_value and
\* get_scanline with a coordinate out of range fail with the out-of-bounds
\* error and change nothing; with coordinates in range set_value changes only
\* cell (x, y), and a following get_value(x, y) returns the value stored there
\* (the value written, as a float32).
C3_BoundsChecked ==
    [][ (vm.width > 0 /\ vm.height > 0) =>
          LET x == res'.a
              y == res'.b
              xin == 0 <= x /\ x < vm.width
              yin == 0 <= y /\ y < vm.height
          IN  /\ (res'.op \in {"get_value", "set_value"} /\ ~(xin /\ yin))
                    => (res'.err = "IndexError" /\ vm' = vm)
              /\ (res'.op = "get_scanline" /\ ~yin)
                    => (res'.err = "IndexError" /\ vm' = vm)
              /\ (res'.op = "set_value" /\ xin /\ yin)
                    => /\ res'.err = "none"
                       /\ vm'.width = vm.width /\ vm'.height = vm.height
                       /\ vm'.present
                       /\ DOMAIN vm'.cells = DOMAIN vm.cells
                       /\ \A i \in DOMAIN vm.cells :
                             i # y * vm.width + x + 1 => vm'.cells[i] = vm.cells[i]
                       /\ get_value(vm', x, y) = [err |-> "none", ret |-> F32(res'.v)]
      ]_vars

\* an out-of-range write was refused on a grid that holds data
C3_Witness ==
    /\ res.op = "set_value" /\ res.err = "IndexError" /\ res.a = vm.width
    /\ res.dirty /\ Dirty(vm) /\ vm.width = 2 /\ vm.height = 2

\* C4: every get_value, set_value and get_scanline on a grid whose width or
\* height is 0 fails with the uninitialized-grid error (ValueError), never
\* with the out-of-bounds error, also on the grid of a document loaded from a
\* version-11 file with width*height = 0.
C4_ZeroSizeUninitialized ==
    [][ ( /\ res'.op \in {"get_value", "set_value", "get_scanline"}
          /\ (vm.width = 0 \/ vm.height = 0) )
        => res'.err = "ValueError" ]_vars

-----------------------------------------------------------------------------
(* The kernel as a state machine: one step per loop test *)

\* value_map.fill(v)
Filled(m, v) == [m EXCEPT !.cells = [i \in DOMAIN m.cells |-> v]]

\* what an earlier computation or a test left in the grid
Garbage == 123

WaveOn  == [on |-> TRUE,  amplitude |-> 1, frequency |-> 200, phase |-> 0]
WaveMin == [on |-> TRUE,  amplitude |-> 1, frequency |-> MIN_FREQ_RATIO, phase |-> 0]
WaveLow == [on |-> TRUE,  amplitude |-> 1, frequency |-> MIN_FREQ_RATIO - 1, phase |-> 0]
WaveOff == [on |-> FALSE, amplitude |-> 1, frequency |-> 200, phase |-> 90]
WaveNeg == [on |-> TRUE,  amplitude |-> -2, frequency |-> 50, phase |-> 180]

WaveChoices == {WaveOn, WaveMin, WaveLow, WaveOff, WaveNeg}

\* the lists of at most n waves
WaveLists(n) == UNION {[1..k -> WaveChoices] : k \in 0..n}

KStartState(pre, infos, width, height, ev) ==
    /\ value_map = pre /\ wave_infos = infos
    /\ req_width = width /\ req_height = height
    /\ stop_event = ev /\ pc = "call"
    /\ row_y = 0 /\ col_x = 0 /\ val_max = 0 /\ kerr = "none"
    /\ written = <<>>
    /\ entry = [resized |-> SizeDiffers(pre, width, height),
                dirty |-> Dirty(pre), stop |-> ev]
    /\ stop_at = -1

\* lines 189-196
KStart ==
    /\ pc = "call"
    /\ value_map' = Prepare(value_map, req_width, req_height)
    /\ IF req_width = 0 \/ req_height = 0
       THEN /\ pc' = "raised"                 \* 1.0 / width, 1.0 / height
            /\ kerr' = "ZeroDivisionError"
       ELSE /\ pc' = "row"
            /\ kerr' = kerr
    /\ row_y' = 0 /\ val_max' = 0
    /\ UNCHANGED <<wave_infos, req_width, req_height, stop_event, col_x,
                   written, entry, stop_at>>
    /\ UNCHANGED nonKernel

\* lines 198-201: the test of `for y in range(height)` and the poll of line 199
KRow ==
    /\ pc = "row"
    /\ IF row_y >= req_height \/ RowPoll(stop_event)
       THEN pc' = "done" /\ col_x' = col_x
       ELSE pc' = "col" /\ col_x' = 0
    /\ UNCHANGED <<value_map, wave_infos, req_width, req_height, stop_event,
                   row_y, val_max, kerr, written, entry, stop_at>>
    /\ UNCHANGED nonKernel

\* lines 201-202: the test of `for x in range(width)` and the poll of
\* line 202
KCell ==
    /\ pc = "col"
    /\ IF col_x >= req_width \/ ColPoll(stop_event, col_x)
       THEN pc' = "rowend"
       ELSE pc' = "cell"
    /\ UNCHANGED <<value_map, wave_infos, req_width, req_height, stop_event,
                   row_y, col_x, val_max, kerr, written, entry, stop_at>>
    /\ UNCHANGED nonKernel

\* lines 204-231: one cell is computed and stored, after the poll; the
\* signal may have been set in between
KWrite ==
    /\ pc = "cell"
    /\ LET current_val == CurrentVal(wave_infos, col_x, row_y,
                                     req_width, req_height)
           r == set_value(value_map, col_x, row_y, current_val)
       IN  IF r.err # "none"
           THEN /\ pc' = "raised" /\ kerr' = r.err
                /\ UNCHANGED <<value_map, col_x, val_max, written>>
           ELSE /\ value_map' = r.map
                /\ written' = Append(written, Idx(value_map, col_x, row_y))
                /\ val_max' = IF current_val > val_max THEN current_val
                              ELSE val_max
                /\ col_x' = col_x + 1
                /\ pc' = "col" /\ kerr' = kerr
    /\ UNCHANGED <<wave_infos, req_width, req_height, stop_event, row_y,
                   entry, stop_at>>
    /\ UNCHANGED nonKernel

\* line 233, then the next y
KRowEnd ==
    /\ pc = "rowend"
    /\ IF RowPoll(stop_event)
       THEN pc' = "done" /\ row_y' = row_y
       ELSE pc' = "row" /\ row_y' = row_y + 1
    /\ UNCHANGED <<value_map, wave_infos, req_width, req_height, stop_event,
                   col_x, val_max, kerr, written, entry, stop_at>>
    /\ UNCHANGED nonKernel

\* another thread sets the signal while the kernel runs.  Nothing clears it
\* before the kernel has returned (main_app.py clears it in on_render_complete).
KSetStop ==
    /\ pc \in {"row", "col", "cell", "rowend"}
    /\ stop_event = "clear"
    /\ stop_event' = "set"
    /\ stop_at' = Len(written)
    /\ UNCHANGED <<value_map, wave_infos, req_width, req_height, pc, row_y,
                   col_x, val_max, kerr, written, entry>>
    /\ UNCHANGED nonKernel

KNext == KStart \/ KRow \/ KCell \/ KWrite \/ KRowEnd \/ KSetStop

\* widths and heights of the small calls
KMaxDim == 2

\* longest wave list of the small calls
MaxWaves == 2

KDims == (0..KMaxDim) \X (0..KMaxDim)

\* the grids a call may be handed: any small size, zero or holding data
KPreMaps ==
    {Filled(NewValueMap(d[1], d[2]), f) : d \in KDims, f \in {0, Garbage}}

KInit ==
    /\ VMIdle /\ CIdle /\ EIdle /\ VIdle /\ GIdle
    /\ \E pre \in KPreMaps, infos \in WaveLists(MaxWaves), d \in KDims,
          ev \in {"None", "clear", "set"} :
          KStartState(pre, infos, d[1], d[2], ev)

SpecKernel == KInit /\ [][KNext]_vars

\* calls that cross a poll column: the width exceeds POLL_COLUMNS by KExtra
KExtra == 1

KWideDims == {<<2, 2>>, <<POLL_COLUMNS + KExtra, 2>>}

KWideInit ==
    /\ VMIdle /\ CIdle /\ EIdle /\ VIdle /\ GIdle
    /\ \E d \in KWideDims, infos \in WaveLists(1), f \in {0, Garbage},
          same \in BOOLEAN, ev \in {"None", "clear", "set"} :
          KStartState(IF same THEN Filled(NewValueMap(d[1], d[2]), f)
                      ELSE Filled(NewValueMap(1, 1), f),
                      infos, d[1], d[2], ev)

SpecKernelWide == KWideInit /\ [][KNext]_vars

-----------------------------------------------------------------------------
(* Claims about calculate_chladni_pattern *)

\* column and row of the buffer position i of the requested grid
XOf(i) == (i - 1) % req_width
YOf(i) == (i - 1) \div req_width

\* the sum of the terms of the waves that are on and have frequency >= 0.1,
\* at cell (x, y)
IncludedSum(x, y) ==
    LET S[i \in 0..Len(wave_infos)] ==
            IF i = 0 THEN 0
            ELSE S[i - 1]
                 + (IF wave_infos[i].on /\ wave_infos[i].frequency >= MIN_FREQ_RATIO
                    THEN Term(wave_infos[i], x, y, req_width, req_height)
                    ELSE 0)
    IN  S[Len(wave_infos)]

NoneIncluded ==
    \A i \in 1..Len(wave_infos) :
        ~wave_infos[i].on \/ wave_infos[i].frequency < MIN_FREQ_RATIO

\* the value the kernel computes for the cell at buffer position i
Computed(i) == CurrentVal(wave_infos, XOf(i), YOf(i), req_width, req_height)

\* the largest computed value among the first n buffer positions, 0 for n = 0
PeakOfFirst(n) ==
    LET S == {Computed(i) : i \in 1..n}
    IN  IF S = {} THEN 0 ELSE CHOOSE p \in S : \A q \in S : q <= p

InOrder(seq) == seq = [i \in 1..Len(seq) |-> i]

Returned == pc = "done"

\* C5: a wave term is added to the sum exactly when it is on and its frequency
\* is >= 0.1 (0.1 itself included); when no term is included the call returns
\* 0 and every cell of the (width x height) grid is 0, whatever it held before.
C5_TermsIncluded ==
    /\ \A k \in 1..Len(written) :
          value_map.cells[written[k]]
            = F32(Abs(IncludedSum(XOf(written[k]), YOf(written[k])))
                  * ITERATION_MULTIPLIER)
    /\ (Returned /\ NoneIncluded) =>
          /\ val_max = 0
          /\ value_map.width = req_width /\ value_map.height = req_height
          /\ Len(value_map.cells) = req_width * req_height
          /\ AllZero(value_map)

\* a term of frequency exactly 0.1 was added, one just below was not, and the
\* grid held data before the call
C5_Witness ==
    /\ Returned /\ stop_event # "set"
    /\ wave_infos = <<WaveLow, WaveMin>>
    /\ entry.dirty /\ ~entry.resized
    /\ val_max > 0

\* C6: called with width = 0 or height = 0 the kernel raises no error: it
\* returns 0 and leaves the grid sized (width, height) with an absent buffer.
C6_ZeroSizeReturns ==
    ((req_width = 0 \/ req_height = 0) /\ pc # "call") =>
        /\ kerr = "none" /\ pc # "raised"
        /\ val_max = 0
        /\ value_map.width = req_width /\ value_map.height = req_height
        /\ ~value_map.present

\* C7: an uncancelled call with width, height >= 1 raises nothing and returns
\* with the grid sized (width, height), every cell written exactly once in
\* row-major order and holding the computed value, whether the grid was
\* resized or cleared in place.
C7_FullSweep ==
    /\ (req_width >= 1 /\ req_height >= 1) => kerr = "none"
    /\ (Returned /\ stop_event # "set") =>
          /\ value_map.width = req_width /\ value_map.height = req_height
          /\ value_map.present
          /\ Len(written) = req_width * req_height
          /\ InOrder(written)
          /\ \A i \in 1..(req_width * req_height) :
                value_map.cells[i] = F32(Computed(i))

\* a grid of the requested size that held data was cleared in place and
\* swept; where the computed value is 0 the old content is gone too
C7_Witness ==
    /\ Returned /\ stop_event # "set"
    /\ entry.dirty /\ ~entry.resized
    /\ req_width = 2 /\ req_height = 2
    /\ wave_infos = <<WaveNeg>>
    /\ \E i \in 1..4 : value_map.cells[i] = 0
    /\ \E i \in 1..4 : value_map.cells[i] > 0

\* C8: if the signal is set when the kernel is called, no cell is computed:
\* on return the grid has the requested size, every cell is 0 and the peak is
\* 0, which is <= the peak of the uncancelled computation.
C8_CancelledAtCall ==
    (Returned /\ entry.stop = "set") =>
        /\ written = <<>>
        /\ value_map.width = req_width /\ value_map.height = req_height
        /\ Len(value_map.cells) = req_width * req_height
        /\ AllZero(value_map)
        /\ val_max = 0
        /\ val_max <= PeakOfFirst(req_width * req_height)

\* a cancelled call on a grid that held data, for waves whose uncancelled peak
\* is positive
C8_Witness ==
    /\ Returned /\ entry.stop = "set"
    /\ entry.dirty /\ ~entry.resized
    /\ req_width = 2 /\ req_height = 2
    /\ PeakOfFirst(4) > 0

\* C9: when the signal is set at some point of the call (and stays set), then
\* on return the written cells are a row-major prefix of the grid, each holds
\* the value the uncancelled computation gives it, every other cell is 0, and
\* the peak returned is the largest value computed for the written cells.
C9_CancelledPrefix ==
    (Returned /\ stop_event = "set") =>
        /\ InOrder(written)
        /\ Len(value_map.cells) = req_width * req_height
        /\ \A i \in 1..Len(value_map.cells) :
              value_map.cells[i] = IF i <= Len(written) THEN F32(Computed(i))
                                   ELSE 0
        /\ val_max = PeakOfFirst(Len(written))

\* the signal was set in the middle of the first row of a grid that held
\* data: the sweep stopped at the poll of column 64
C9_Witness ==
    /\ Returned /\ stop_event = "set"
    /\ entry.dirty /\ ~entry.resized
    /\ req_width > POLL_COLUMNS
    /\ stop_at > 0 /\ stop_at < POLL_COLUMNS
    /\ Len(written) = POLL_COLUMNS
    /\ val_max > 0

-----------------------------------------------------------------------------
(* The codec as a state machine: a document is saved, the file is loaded *)

CMaxDim == 2

MaxDocWaves == 2

WaveExact == [on |-> TRUE, amplitude |-> 1, frequency |-> 3, phase |-> 90]

WaveWide == [on |-> FALSE, amplitude |-> BigOdd, frequency |-> -5, phase |-> 0]

DocWaveLists ==
    UNION { [1..n -> {WaveExact, WaveWide}] : n \in 0..MaxDocWaves }

\* the cells of test_save_and_load_with_level_map, float(r * width + c)
Ramp(m) == [m EXCEPT !.cells = [i \in DOMAIN m.cells |-> i - 1]]

\* float32 cells that use the sign bit and the largest exponent in range
Steep(m) ==
    [m EXCEPT !.cells = [i \in DOMAIN m.cells |-> -(Pow2(SigBits) + 2 * i)]]

\* the grids a document of the given size may carry: none, one of its own
\* size, or a 1x1 grid that need not match
DocGrids(width, height) ==
    LET own == NewValueMap(width, height)
        other == NewValueMap(1, 1)
    IN  {NoGrid, Grid(Ramp(own)), Grid(Steep(own)), Grid(Ramp(other))}

CInit ==
    /\ VMIdle /\ KIdle /\ EIdle /\ VIdle /\ GIdle
    /\ \E w \in -1..CMaxDim, h \in -1..CMaxDim :
         \E ws \in DocWaveLists, mi \in {-1, 1}, nz \in BOOLEAN,
            g \in DocGrids(w, h) :
              doc = [wave_infos |-> ws, map_index |-> mi, width |-> w,
                     height |-> h, normalize |-> nz, value_map |-> g]
    /\ save_level_map \in BOOLEAN
    /\ file = <<>> /\ saved = "" /\ loaded = Failed("") /\ cpc = "start"

\* save_chl_file(filepath, doc, save_level_map)
CSave ==
    /\ cpc = "start"
    /\ LET r == save_chl_file(doc, save_level_map)
       IN  /\ file' = r.file
           /\ saved' = r.err
    /\ cpc' = "saved"
    /\ UNCHANGED <<doc, save_level_map, loaded>>
    /\ UNCHANGED nonCodec

\* load_chl_file(filepath) on the file the save left behind
CLoad ==
    /\ cpc = "saved"
    /\ loaded' = load_chl_file(file)
    /\ cpc' = "loaded"
    /\ UNCHANGED <<doc, save_level_map, file, saved>>
    /\ UNCHANGED nonCodec

CNext == CSave \/ CLoad

SpecCodec == CInit /\ [][CNext]_vars

-----------------------------------------------------------------------------
(* Claims about the codec *)

\* the grid, when present, has the document's width and height
GridMatches(d) ==
    d.value_map.some =>
        (d.value_map.map.width = d.width /\ d.value_map.map.height = d.height)

\* the document was written and read back
RoundTripped == cpc = "loaded" /\ saved = "none"

Rounded(wi) ==
    [on |-> wi.on, amplitude |-> F32(wi.amplitude),
     frequency |-> F32(wi.frequency), phase |-> F32(wi.phase)]

\* what the round trip promises beside the wave parameters
RestSame ==
    /\ loaded.err = "none"
    /\ loaded.data.map_index = doc.map_index
    /\ loaded.data.width = doc.width
    /\ loaded.data.height = doc.height
    /\ loaded.data.normalize = doc.normalize
    /\ IF save_level_map /\ doc.value_map.some
       THEN /\ loaded.data.value_map.some
            /\ loaded.data.value_map.map.width = doc.value_map.map.width
            /\ loaded.data.value_map.map.height = doc.value_map.map.height
            /\ loaded.data.value_map.map.cells = doc.value_map.map.cells
       ELSE ~loaded.data.value_map.some

-----------------------------------------------------------------------------
(* The codec on damaged files: the file a save left behind is cut short or *)
(* has one byte of its magic or version overwritten, and is then loaded,   *)
(* as the tests of malformed files do.                                     *)

\* documents of non-negative size; a palette index of -1 makes the save stop
\* after the capacity field and leave a file of ten bytes
TInit ==
    /\ VMIdle /\ KIdle /\ EIdle /\ VIdle /\ GIdle
    /\ \E w \in 0..CMaxDim, h \in 0..CMaxDim :
         \E ws \in DocWaveLists, g \in DocGrids(w, h) :
            \E mi \in {-1, 1} :
              doc = [wave_infos |-> ws, map_index |-> mi, width |-> w,
                     height |-> h, normalize |-> TRUE, value_map |-> g]
    /\ save_level_map \in BOOLEAN
    /\ file = <<>> /\ saved = "" /\ loaded = Failed("") /\ cpc = "start"

\* the file ends early, after n bytes
CTruncate ==
    /\ cpc = "saved"
    /\ \E n \in 0..(Len(file) - 1) : file' = SubSeq(file, 1, n)
    /\ cpc' = "cut"
    /\ UNCHANGED <<doc, save_level_map, saved, loaded>>
    /\ UNCHANGED nonCodec

\* byte values written over the magic and the version: "B" and "!" of
\* b"BAD!", the two known versions, the unsupported 99, a high byte
Patches ==
    { [at |-> 1, byte |-> 66], [at |-> 4, byte |-> 33],
      [at |-> 5, byte |-> VERSION_STANDARD],
      [at |-> 5, byte |-> VERSION_WITH_LEVEL_MAP],
      [at |-> 5, byte |-> 99], [at |-> 6, byte |-> 1] }

\* one byte of the magic or of the version is overwritten
CPatch ==
    /\ cpc = "saved"
    /\ \E p \in Patches :
          /\ p.at <= Len(file)
          /\ file[p.at] # p.byte
          /\ file' = [file EXCEPT ![p.at] = p.byte]
    /\ cpc' = "patched"
    /\ UNCHANGED <<doc, save_level_map, saved, loaded>>
    /\ UNCHANGED nonCodec

\* load_chl_file(filepath) on the damaged file
CLoadDamaged ==
    /\ cpc \in {"cut", "patched"}
    /\ loaded' = load_chl_file(file)
    /\ cpc' = IF cpc = "cut" THEN "loaded_cut" ELSE "loaded_patched"
    /\ UNCHANGED <<doc, save_level_map, file, saved>>
    /\ UNCHANGED nonCodec

TNext == CSave \/ CLoad \/ CTruncate \/ CPatch \/ CLoadDamaged

SpecCodecDamaged == TInit /\ [][TNext]_vars

-----------------------------------------------------------------------------
(* Claims about versions and damaged files *)

\* what the bytes of the file say, read off the file itself
FileMagicOk == Len(file) >= 4 /\ SubSeq(file, 1, 4) = <<164, 67, 72, 76>>

FileHasVersion == Len(file) >= 6

FileVersion == file[5] + 256 * file[6]

FileVersionOk == FileHasVersion /\ FileVersion \in {10, 11}

FileHeaderLen == 4 + 2 + 4 + 4 + 4 + 4 + 1

FileHasHeader == Len(file) >= FileHeaderLen

FileCapacity == file[7] + 256 * file[8] + 65536 * file[9] + 16777216 * file[10]

FileWidth == file[15] + 256 * file[16] + 65536 * file[17] + 16777216 * file[18]

FileHeight == file[19] + 256 * file[20] + 65536 * file[21] + 16777216 * file[22]

FileWavesEnd == FileHeaderLen + 13 * FileCapacity

FileHasWaves == FileHasHeader /\ Len(file) >= FileWavesEnd

FilePayloadNeeded == 4 * FileWidth * FileHeight

FileHasPayload == FileHasWaves /\ Len(file) - FileWavesEnd >= FilePayloadNeeded

WasLoaded == cpc \in {"loaded", "loaded_cut", "loaded_patched"}

\* C11: save_chl_file writes version 11 exactly when save_level_map is true
\* and the document's grid is not None, and version 10 otherwise;
\* load_chl_file reads a grid payload exactly when the version it read is 11:
\* a version-11 file yields a grid made of the bytes after the waves (or
\* fails when they are too few), a version-10 file yields no grid whatever
\* follows its waves.
C11_VersionSelectsPayload ==
    /\ cpc = "saved" =>
          /\ FileHasVersion
          /\ FileVersion = 11 <=> (save_level_map /\ doc.value_map.some)
          /\ FileVersion = 10 <=> ~(save_level_map /\ doc.value_map.some)
    /\ (WasLoaded /\ FileMagicOk /\ FileVersionOk /\ FileHasWaves) =>
          /\ FileVersion = 10 =>
                loaded.err = "none" /\ ~loaded.data.value_map.some
          /\ (FileVersion = 11 /\ FileHasPayload) =>
                /\ loaded.err = "none" /\ loaded.data.value_map.some
                /\ Len(loaded.data.value_map.map.cells) * 4 = FilePayloadNeeded
          /\ (FileVersion = 11 /\ ~FileHasPayload) => loaded.err = "IOError"

\* a version-11 file re-labelled version 10 was loaded: its payload was left
\* unread and the document has no grid
C11_Witness ==
    /\ cpc = "loaded_patched" /\ FileMagicOk /\ FileVersionOk
    /\ FileVersion = 10 /\ save_level_map /\ doc.value_map.some
    /\ FileHasWaves /\ Len(file) > FileWavesEnd
    /\ loaded.err = "none" /\ ~loaded.data.value_map.some

\* the file ends before the bytes its header declares
Incomplete ==
    \/ ~FileHasHeader
    \/ ~FileHasWaves
    \/ (FileVersion = 11 /\ ~FileHasPayload)

\* the kind raised when the data ends right after the version
HeaderTruncationKind == load_chl_file(CHL_ID_EXPECTED \o PackH(VERSION_STANDARD)).err

\* the kind raised for a wrong magic
FormatKind == load_chl_file(<<66, 65, 68, 33>>).err

C13_FormatErrors ==
    WasLoaded =>
        /\ ~FileMagicOk => (loaded.err = "ValueError" /\ loaded.data = NoData)
        /\ (FileMagicOk /\ FileHasVersion /\ ~FileVersionOk)
              => (loaded.err = "ValueError" /\ loaded.data = NoData)

\* a file with the right magic, a version above 255 and no complete header
\* after it was loaded
C13_Witness ==
    /\ cpc = "loaded_patched" /\ FileMagicOk /\ FileHasVersion
    /\ FileVersion = 256 + VERSION_STANDARD
    /\ ~FileHasHeader
    /\ loaded.err = "ValueError"

-----------------------------------------------------------------------------
(* ChladniSimulator, chladni_engine.py.  Its grid can be 16384 x 16384, so *)
(* the engine keeps a ValueMap as [width, height, present, runs]: runs is  *)
(* the buffer as a sequence of [n, v], n equal cells of value v in         *)
(* row-major order, adjacent runs holding different values.                *)

DEFAULT_WIDTH == 500

DEFAULT_HEIGHT == 500

DEFAULT_CAPACITY == 10

DEFAULT_NORMALIZE == TRUE

DEFAULT_MAP_NAME == "Spectrum"

CHL_UNTITLED == "Untitled.chl"

MIN_SIZE == 10

MAX_SIZE == 16384

\* list(self.available_color_maps.keys())
map_names == <<"Grayscale", "Spectrum">>

\* WaveInfo()
DefaultWave == [on |-> FALSE, amplitude |-> 0, frequency |-> 0, phase |-> 0]

\* np.zeros of n cells
ZeroRuns(n) == IF n = 0 THEN <<>> ELSE <<[n |-> n, v |-> 0]>>

\* the buffer of a ValueMap with its cells listed one by one
RECURSIVE RunsOf(_)
RunsOf(cells) ==
    IF cells = <<>> THEN <<>>
    ELSE LET rest == RunsOf(Tail(cells))
         IN  IF rest # <<>> /\ Head(rest).v = Head(cells)
             THEN <<[n |-> Head(rest).n + 1, v |-> Head(cells)]>> \o Tail(rest)
             ELSE <<[n |-> 1, v |-> Head(cells)]>> \o rest

\* _bits.size
RECURSIVE RunTotal(_)
RunTotal(runs) ==
    IF runs = <<>> THEN 0 ELSE Head(runs).n + RunTotal(Tail(runs))

\* np.max(_bits), for a buffer that is not empty
RunMax(runs) ==
    CHOOSE v \in {runs[i].v : i \in DOMAIN runs} :
        \A i \in DOMAIN runs : runs[i].v <= v

\* a ValueMap as the engine keeps it
PackGrid(m) ==
    [width |-> m.width, height |-> m.height, present |-> m.present,
     runs |-> RunsOf(m.cells)]

\* np.zeros((h, w)) raises MemoryError: taken to happen from 2^56 cells on,
\* more than any address space holds
AllocFails(w, h) == (w \div 32768) * (h \div 32768) >= 67108864

\* ValueMap.set_size with _change_size: [err, grid, changed].  The width and
\* height are assigned before np.zeros is called.
set_size_runs(g, new_width, new_height) ==
    LET w == Max(0, new_width)
        h == Max(0, new_height)
        changed == w # g.width \/ h # g.height
    IN  IF ~changed THEN [err |-> "none", grid |-> g, changed |-> FALSE]
        ELSE IF w = 0 \/ h = 0
        THEN [err |-> "none", changed |-> TRUE,
              grid |-> [width |-> w, height |-> h, present |-> FALSE,
                        runs |-> <<>>]]
        ELSE IF AllocFails(w, h)
        THEN [err |-> "MemoryError", changed |-> TRUE,
              grid |-> [g EXCEPT !.width = w, !.height = h]]
        ELSE [err |-> "none", changed |-> TRUE,
              grid |-> [width |-> w, height |-> h, present |-> TRUE,
                        runs |-> ZeroRuns(w * h)]]

\* ValueMap.clear
clear_runs(g) ==
    IF g.present THEN [g EXCEPT !.runs = ZeroRuns(RunTotal(g.runs))] ELSE g

\* mutant: the smaller bound is 1
ClampSize_min_one(n) == Max(1, Min(n, MAX_SIZE))

\* max(10, min(n, 16384))
ClampSize(n) == Max(MIN_SIZE, Min(n, MAX_SIZE))

\* ChladniSimulator.set_dimensions
set_dimensions(s, width, height) ==
    LET w == ClampSize(width)
        h == ClampSize(height)
    IN  IF s.width # w \/ s.height # h
        THEN [s EXCEPT !.width = w, !.height = h,
                       !.value_map = set_size_runs(s.value_map, w, h).grid,
                       !.modified = TRUE]
        ELSE s

\* the wave list cut or padded with WaveInfo() to n entries
Resized(infos, n) ==
    [i \in 1..n |-> IF i <= Len(infos) THEN infos[i] ELSE DefaultWave]

\* ChladniSimulator.set_capacity
set_capacity(s, capacity) ==
    LET c == Max(1, capacity)
    IN  IF s.capacity # c
        THEN [s EXCEPT !.capacity = c,
                       !.wave_infos = IF Len(s.wave_infos) = c THEN s.wave_infos
                                      ELSE Resized(s.wave_infos, c),
                       !.modified = TRUE]
        ELSE s

\* ChladniSimulator.__init__ followed by reset(), and reset() itself
NewSimulator ==
    [filename |-> CHL_UNTITLED, modified |-> FALSE,
     width |-> DEFAULT_WIDTH, height |-> DEFAULT_HEIGHT,
     capacity |-> DEFAULT_CAPACITY, normalize |-> DEFAULT_NORMALIZE,
     wave_infos |-> [i \in 1..DEFAULT_CAPACITY |-> DefaultWave],
     value_map |-> [width |-> DEFAULT_WIDTH, height |-> DEFAULT_HEIGHT,
                    present |-> TRUE,
                    runs |-> ZeroRuns(DEFAULT_WIDTH * DEFAULT_HEIGHT)],
     calculated_max_value |-> 0,
     selected_color_map_name |-> DEFAULT_MAP_NAME]

\* ChladniSimulator.reset
reset(s) ==
    [s EXCEPT !.width = DEFAULT_WIDTH, !.height = DEFAULT_HEIGHT,
              !.capacity = DEFAULT_CAPACITY, !.normalize = DEFAULT_NORMALIZE,
              !.selected_color_map_name = DEFAULT_MAP_NAME,
              !.value_map = clear_runs(set_size_runs(s.value_map, DEFAULT_WIDTH,
                                                     DEFAULT_HEIGHT).grid),
              !.calculated_max_value = 0,
              !.wave_infos = [i \in 1..DEFAULT_CAPACITY |-> DefaultWave],
              !.filename = CHL_UNTITLED, !.modified = FALSE]

\* load_chl_file(filepath) as the engine calls it: a path with no file
\* raises FileNotFoundError
LoadPath(input) ==
    IF input.found THEN load_chl_file(input.bytes)
    ELSE Failed("FileNotFoundError")

\* the palette name load_from_file selects for a stored index
NameOfIndex(map_index) ==
    IF 0 <= map_index /\ map_index < Len(map_names)
    THEN map_names[map_index + 1]
    ELSE DEFAULT_MAP_NAME

\* load_from_file, lines 165-178: the size, the capacity, the waves, the
\* normalize flag and the palette are taken from the loaded document
InstallHeader(s, data) ==
    [set_capacity([s EXCEPT !.width = data.width, !.height = data.height],
                  Len(data.wave_infos))
       EXCEPT !.wave_infos = data.wave_infos,
              !.normalize = data.normalize,
              !.selected_color_map_name = NameOfIndex(data.map_index)]

\* mutant: a loaded grid leaves the modified flag as it was
InstallLoadedGrid_keeps_modified(s, filepath, m) ==
    [ret |-> TRUE,
     sim |-> [s EXCEPT !.value_map = PackGrid(m),
                       !.calculated_max_value =
                           IF Len(m.cells) > 0 THEN RunMax(RunsOf(m.cells))
                           ELSE 0,
                       !.filename = filepath]]

\* load_from_file, lines 181-192: the loaded grid replaces the simulator's
InstallLoadedGrid(s, filepath, m) ==
    [ret |-> TRUE,
     sim |-> [s EXCEPT !.value_map = PackGrid(m),
                       !.calculated_max_value =
                           IF Len(m.cells) > 0 THEN RunMax(RunsOf(m.cells))
                           ELSE 0,
                       !.filename = filepath, !.modified = FALSE]]

\* load_from_file, lines 194-199: no grid in the file; r is the outcome of
\* set_size, whose exception is caught with nothing undone
InstallEmptyGrid(s, filepath, r) ==
    IF r.err # "none"
    THEN [ret |-> FALSE, sim |-> [s EXCEPT !.value_map = r.grid]]
    ELSE [ret |-> TRUE,
          sim |-> [s EXCEPT !.value_map = clear_runs(r.grid),
                            !.calculated_max_value = 0,
                            !.filename = filepath, !.modified = FALSE]]

\* load_from_file after the header was installed
InstallGrid(s, filepath, data) ==
    IF data.value_map.some /\ data.value_map.map.present
    THEN InstallLoadedGrid(s, filepath, data.value_map.map)
    ELSE InstallEmptyGrid(s, filepath,
                          set_size_runs(s.value_map, s.width, s.height))

\* load_from_file once load_chl_file has returned or raised
Installed(s, filepath, l) ==
    IF l.err # "none" THEN [ret |-> FALSE, sim |-> s]
    ELSE InstallGrid(InstallHeader(s, l.data), filepath, l.data)

\* ChladniSimulator.load_from_file: [ret, sim]
load_from_file(s, filepath, input) == Installed(s, filepath, LoadPath(input))

\* map_names.index(self.selected_color_map_name), 0 when it is not there
IndexOfName(name) ==
    IF \E i \in DOMAIN map_names : map_names[i] = name
    THEN (CHOOSE i \in DOMAIN map_names : map_names[i] = name) - 1
    ELSE 0

\* ChladniSimulator.save_to_file: [ret, err, sim, data].  stored tells
\* whether save_chl_file could write the file; the resize in front of the try
\* block raises to the caller: err is then the exception and nothing is
\* returned (ret is FALSE in the record).
save_to_file(s, filepath, slm, stored) ==
    LET differs == s.value_map.width # s.width \/ s.value_map.height # s.height
        r == IF differs THEN set_size_runs(s.value_map, s.width, s.height)
             ELSE [err |-> "none", grid |-> s.value_map, changed |-> FALSE]
        s1 == [s EXCEPT !.value_map = r.grid]
        data == [wave_infos |-> s1.wave_infos,
                 map_index |-> IndexOfName(s1.selected_color_map_name),
                 width |-> s1.width, height |-> s1.height,
                 normalize |-> s1.normalize,
                 value_map |-> IF slm THEN [some |-> TRUE, map |-> s1.value_map]
                               ELSE [some |-> FALSE, map |-> s1.value_map]]
    IN  IF r.err # "none"
        THEN [ret |-> FALSE, err |-> r.err, sim |-> s1, data |-> data]
        ELSE IF stored
        THEN [ret |-> TRUE, err |-> "none", data |-> data,
              sim |-> [s1 EXCEPT !.filename = filepath, !.modified = FALSE]]
        ELSE [ret |-> FALSE, err |-> "none", sim |-> s1, data |-> data]

\* the wave list in the units of the kernel's arithmetic: the frequency, a
\* whole number here, in hundredths
KernelWaves(infos) ==
    [i \in DOMAIN infos |->
        [infos[i] EXCEPT !.frequency = 100 * infos[i].frequency]]

\* core.py lines 189-193 on a grid kept as runs: resize, or clear in place
prepare_runs(g, width, height) ==
    IF g.width # width \/ g.height # height
    THEN set_size_runs(g, width, height).grid
    ELSE clear_runs(g)

\* two stretches of a buffer put end to end
JoinRuns(a, b) ==
    IF a # <<>> /\ b # <<>> /\ a[Len(a)].v = Head(b).v
    THEN SubSeq(a, 1, Len(a) - 1)
           \o <<[n |-> a[Len(a)].n + Head(b).n, v |-> Head(b).v]>> \o Tail(b)
    ELSE a \o b

\* the row y as the loop over x leaves it, each value stored as float32
SweptRow(infos, y, width, height) ==
    RunsOf([i \in 1..width |->
               F32(CurrentVal(infos, i - 1, y, width, height))])

\* the buffer calculate_chladni_pattern leaves from row y on when the rows
\* below `rows` were swept before it returned (all of them unless the signal
\* was seen): the others keep the zeros of the resize or clear
RECURSIVE SweptRuns(_, _, _, _, _)
SweptRuns(infos, width, height, rows, y) ==
    IF y >= rows THEN ZeroRuns((height - y) * width)
    ELSE JoinRuns(SweptRow(infos, y, width, height),
                  SweptRuns(infos, width, height, rows, y + 1))

\* val_max of that sweep: the largest current_val, 0.0 when no cell was
\* computed
SweptPeak(infos, width, height, rows) ==
    LET vals == {CurrentVal(infos, x, y, width, height) :
                    x \in 0..(width - 1), y \in 0..(rows - 1)}
    IN  IF vals = {} THEN 0 ELSE CHOOSE v \in vals : \A u \in vals : u <= v

\* the grid after calculate_chladni_pattern(self._value_map, infos,
\* self._width, self._height, stop_event) as the simulator calls it
CalculatedGrid(s, infos, rows) ==
    [prepare_runs(s.value_map, s.width, s.height)
       EXCEPT !.runs = SweptRuns(infos, s.width, s.height, rows, 0)]

\* ChladniSimulator.recalculate_pattern
recalculate_pattern(s) ==
    IF s.width = 0 \/ s.height = 0 THEN s
    ELSE [s EXCEPT !.value_map =
                       CalculatedGrid(s, KernelWaves(s.wave_infos), s.height),
                   !.calculated_max_value =
                       SweptPeak(KernelWaves(s.wave_infos), s.width, s.height,
                                 s.height),
                   !.modified = TRUE]

\* mutant: a stopped computation marks the document as modified too
recalculate_pattern_with_event_always(s, rows, stopped) ==
    IF s.width = 0 \/ s.height = 0 THEN s
    ELSE [s EXCEPT !.value_map =
                       CalculatedGrid(s, KernelWaves(s.wave_infos), rows),
                   !.calculated_max_value =
                       SweptPeak(KernelWaves(s.wave_infos), s.width, s.height,
                                 rows),
                   !.modified = TRUE]

\* ChladniSimulator.recalculate_pattern_with_event: rows is the number of
\* rows the kernel swept, stopped the value of
\* `stop_event and stop_event.is_set()` after the kernel returned
recalculate_pattern_with_event(s, rows, stopped) ==
    IF s.width = 0 \/ s.height = 0 THEN s
    ELSE [s EXCEPT !.value_map =
                       CalculatedGrid(s, KernelWaves(s.wave_infos), rows),
                   !.calculated_max_value =
                       SweptPeak(KernelWaves(s.wave_infos), s.width, s.height,
                                 rows),
                   !.modified = IF stopped THEN @ ELSE TRUE]


-----------------------------------------------------------------------------
(* The simulator as a state machine: one action per public method *)

\* sizes and capacities handed to the setters
DimInputs == {-1, 5, MIN_SIZE, 100, MAX_SIZE, 20000}

CapInputs == {0, 1, 2, DEFAULT_CAPACITY}

Huge == 1073741824

\* the files offered to load_from_file
FileStandard ==
    save_chl_file([wave_infos |-> <<WaveExact>>, map_index |-> 0,
                   width |-> 12, height |-> MIN_SIZE, normalize |-> FALSE,
                   value_map |-> NoGrid], FALSE).file

FileLevelMap ==
    save_chl_file([wave_infos |-> <<WaveWide, WaveExact>>, map_index |-> 1,
                   width |-> 2, height |-> 2, normalize |-> TRUE,
                   value_map |-> Grid(Ramp(NewValueMap(2, 2)))], TRUE).file

FileNoWaves ==
    save_chl_file([wave_infos |-> <<>>, map_index |-> 5,
                   width |-> 0, height |-> 0, normalize |-> FALSE,
                   value_map |-> Grid(NewValueMap(0, 0))], TRUE).file

FileHuge ==
    save_chl_file([wave_infos |-> <<WaveExact>>, map_index |-> 0,
                   width |-> Huge, height |-> Huge, normalize |-> FALSE,
                   value_map |-> NoGrid], FALSE).file

LoadInputs ==
    { [found |-> FALSE, bytes |-> <<>>],
      [found |-> TRUE, bytes |-> <<116, 104, 105, 115>>],
      [found |-> TRUE, bytes |-> SubSeq(FileLevelMap, 1, 30)],
      [found |-> TRUE, bytes |-> FileStandard],
      [found |-> TRUE, bytes |-> FileLevelMap],
      [found |-> TRUE, bytes |-> FileNoWaves],
      [found |-> TRUE, bytes |-> FileHuge] }

Call(op, a, b, ret, err) ==
    [op |-> op, a |-> a, b |-> b, ret |-> ret, err |-> err]

EInit ==
    /\ VMIdle /\ KIdle /\ CIdle /\ VIdle /\ GIdle
    /\ sim = NewSimulator
    /\ sres = Call("init", 0, 0, TRUE, "none")

SimReset ==
    /\ sim' = reset(sim)
    /\ sres' = Call("reset", 0, 0, TRUE, "none")
    /\ UNCHANGED nonEngine

SimSetDimensions ==
    \E w \in DimInputs, h \in DimInputs :
        /\ sim' = set_dimensions(sim, w, h)
        /\ sres' = Call("set_dimensions", w, h, TRUE, "none")
        /\ UNCHANGED nonEngine

SimSetCapacity ==
    \E c \in CapInputs :
        /\ sim' = set_capacity(sim, c)
        /\ sres' = Call("set_capacity", c, 0, TRUE, "none")
        /\ UNCHANGED nonEngine

\* the simulator and the record of the call after load_from_file returned r
Loaded(input, r) ==
    /\ sim' = r.sim
    /\ sres' = Call("load_from_file", IF input.found THEN 1 ELSE 0,
                    Len(input.bytes), r.ret, "none")

SimLoad ==
    \E input \in LoadInputs :
        /\ Loaded(input, load_from_file(sim, "in.chl", input))
        /\ UNCHANGED nonEngine

SimSave ==
    \E slm \in BOOLEAN, stored \in BOOLEAN :
        LET r == save_to_file(sim, "out.chl", slm, stored)
        IN  /\ sim' = r.sim
            /\ sres' = Call("save_to_file", IF slm THEN 1 ELSE 0,
                             IF stored THEN 1 ELSE 0, r.ret, r.err)
            /\ UNCHANGED nonEngine

\* the largest side of a grid the model sweeps cell by cell
SweepMax == 12

Sweepable == sim.width \in 0..SweepMax /\ sim.height \in 0..SweepMax

SimRecalculate ==
    /\ Sweepable
    /\ sim' = recalculate_pattern(sim)
    /\ sres' = Call("recalculate_pattern", 0, sim.height, TRUE, "none")
    /\ UNCHANGED nonEngine

\* the signal of a call: 0 for None, 1 for an event nobody sets, 2 for an
\* event that is set, at the call or by another thread, before the kernel
\* has returned.  The kernel sees it after rows rows: at the poll in front
\* of a row, at the poll of column 0 (widths are below 64) or at the poll
\* after the row; rows = height when it is set after the last poll.
SimRecalculateWithEvent ==
    /\ Sweepable
    /\ \E stop \in 0..2 :
       \E rows \in IF stop = 2 THEN {0, 2, sim.height} ELSE {sim.height} :
          /\ rows <= sim.height
          /\ sim' = recalculate_pattern_with_event(sim, rows, stop = 2)
          /\ sres' = Call("recalculate_pattern_with_event", stop, rows, TRUE,
                          "none")
    /\ UNCHANGED nonEngine

ENext ==
    \/ SimReset
    \/ SimRecalculate
    \/ SimRecalculateWithEvent
    \/ SimSetDimensions
    \/ SimSetCapacity
    \/ SimLoad
    \/ SimSave

SpecEngine == EInit /\ [][ENext]_vars

-----------------------------------------------------------------------------
(* Claims about ChladniSimulator *)

\* C14: whenever load_from_file returns False, for any cause of failure, the
\* simulator's width, height, capacity, wave list, normalize flag, selected
\* palette, grid, stored peak, filename and modified flag are as before the
\* call.
C14_FailedLoadChangesNothing ==
    [][ (sres'.op = "load_from_file" /\ sres'.ret = FALSE) => sim' = sim ]_vars

\* C20: set_dimensions(w, h) clamps w and h to [10, 16384]; when the clamped
\* pair equals the current dimensions nothing changes, the modified flag
\* included; otherwise the simulator's width and height and its grid's width
\* and height become the clamped pair and modified becomes true.
C20_SetDimensions ==
    [][ sres'.op = "set_dimensions" =>
          LET w == IF sres'.a < 10 THEN 10
                   ELSE IF sres'.a > 16384 THEN 16384 ELSE sres'.a
              h == IF sres'.b < 10 THEN 10
                   ELSE IF sres'.b > 16384 THEN 16384 ELSE sres'.b
          IN  IF <<w, h>> = <<sim.width, sim.height>>
              THEN sim' = sim
              ELSE /\ sim'.width = w /\ sim'.height = h
                   /\ sim'.value_map.width = w /\ sim'.value_map.height = h
                   /\ sim'.modified
      ]_vars

\* an unmodified simulator with a loaded 2x2 grid was resized, from requests
\* below the smallest and above the largest allowed size
C20_Witness ==
    /\ sres.op = "set_dimensions" /\ sres.a = 5 /\ sres.b = 20000
    /\ sim.width = 10 /\ sim.height = 16384
    /\ sim.value_map.width = 10 /\ sim.value_map.height = 16384
    /\ sim.modified /\ sim.filename = "in.chl"

-----------------------------------------------------------------------------
(* ColorMap, visualization.py.  Values and max_iter are multiples of       *)
(* 1/Unit, kept as integers; rec_max_col holds d for the reciprocal 1/d    *)
(* and 0 for 0.0.  The max_iter values used are ones for which the double  *)
(* arithmetic of iter_to_rgb gives the exact quotient.                     *)

Unit == 4

\* create_grayscale_palette()[i], create_spectrum_palette()[i]
Grayscale(i) == <<i, i, i>>

Spectrum(i) ==
    IF i < 64 THEN <<0, i * 4, 255>>
    ELSE IF i < 128 THEN <<0, 255, 255 - (i - 64) * 4>>
    ELSE IF i < 192 THEN <<(i - 128) * 4, 255, 0>>
    ELSE <<255, 255 - (i - 192) * 4, 0>>

\* self.palette[i] of the colour map called name
Palette(name, i) == IF name = "Grayscale" THEN Grayscale(i) ELSE Spectrum(i)

\* ColorMap._update_calc
update_calc(c) ==
    [c EXCEPT !.rec_max_col = IF c.max_iter > 0 THEN c.max_iter ELSE 0]

\* ColorMap.__init__
NewColorMap(name, max_iter) ==
    update_calc([name |-> name, max_iter |-> max_iter, rec_max_col |-> 0])

\* mutant: the reciprocal is not recomputed for the new limit
set_max_iter_stale(c, new_max_iter) ==
    IF c.max_iter = new_max_iter THEN c
    ELSE [c EXCEPT !.max_iter = new_max_iter]

\* ColorMap.set_max_iter
set_max_iter(c, new_max_iter) ==
    IF c.max_iter = new_max_iter THEN c
    ELSE update_calc([c EXCEPT !.max_iter = new_max_iter])

\* round(n / d) of Python 3 for n >= 0, d > 0: to nearest, ties to even
RoundHalfEven(n, d) ==
    LET q == n \div d
        r == n % d
    IN  IF 2 * r > d \/ (2 * r = d /\ q % 2 = 1) THEN q + 1 ELSE q

\* 255 * (1.0 - w / 100.0) + 255 * (w / 100.0) evaluates in doubles to
\* 254.99999999999997 for these w; 255 and 0 are the only values two adjacent
\* entries of the two palettes share in a channel, and 0 is not affected
FloatShort(c, w) == c = 255 /\ w \in {4, 7, 17, 29}

\* mutant: the two weights are exchanged
mix_channel_swapped(c1, c2, w) ==
    Max(0, Min(255, (c1 * (100 - w) + c2 * w) \div 100))

\* one channel of _mix_colors: int(c2 * w1 + c1 * w2), clamped to [0, 255]
mix_channel(c1, c2, w) ==
    LET sum == (c2 * (100 - w) + c1 * w) \div 100
    IN  Max(0, Min(255, IF c1 = c2 /\ FloatShort(c1, w) THEN sum - 1 ELSE sum))

\* _mix_colors(color1, color2, weight2_percent)
mix_colors(color1, color2, w) ==
    << mix_channel(color1[1], color2[1], w),
       mix_channel(color1[2], color2[2], w),
       mix_channel(color1[3], color2[3], w) >>

\* iter_to_rgb between the two ends: n / d is n_scaled
Blend(c, n, d) ==
    LET i == Min(n \div d, 254)
        w == Max(0, Min(100, RoundHalfEven(100 * (n - i * d), d)))
    IN  mix_colors(Palette(c.name, i + 1), Palette(c.name, i), w)

\* mutant: the test for value <= 0 comes first
iter_to_rgb_zero_first(c, value) ==
    IF value <= 0 THEN Palette(c.name, 0)
    ELSE IF value >= c.max_iter THEN Palette(c.name, 255)
    ELSE Blend(c, 255 * value, c.rec_max_col)

\* ColorMap.iter_to_rgb
iter_to_rgb(c, value) ==
    IF value >= c.max_iter THEN Palette(c.name, 255)
    ELSE IF value <= 0 THEN Palette(c.name, 0)
    ELSE Blend(c, 255 * value, c.rec_max_col)

-----------------------------------------------------------------------------
(* The colour map as a state machine *)

ITERATION_MULTIPLIER_U == 256 * Unit

\* max_iter values: -1.0, 0, 1/Unit, 1.0, 3.0, 255.0 and 256.0
MaxIters ==
    {-Unit, 0, 1, Unit, 3 * Unit, 255 * Unit, ITERATION_MULTIPLIER_U}

\* values handed to iter_to_rgb: every multiple of 1/Unit from -1.0 to 16.0,
\* every whole number up to 250.0, every multiple of 1/Unit from there to 257.0
ValueInputs ==
    { v \in (-Unit)..(257 * Unit) :
        v <= 16 * Unit \/ v % Unit = 0 \/ v >= 250 * Unit }

ColorNames == {"Grayscale", "Spectrum"}

VInit ==
    /\ KIdle /\ CIdle /\ EIdle /\ VMIdle /\ GIdle
    /\ \E name \in ColorNames : cm = NewColorMap(name, ITERATION_MULTIPLIER_U)
    /\ cres = [op |-> "init", v |-> 0, rgb |-> <<0, 0, 0>>]
    /\ img = [width |-> 0, height |-> 0, pixels |-> <<>>]

CMConstruct ==
    \E name \in ColorNames, v \in MaxIters :
        /\ cm' = NewColorMap(name, v)
        /\ cres' = [op |-> "init", v |-> v, rgb |-> <<0, 0, 0>>]
        /\ UNCHANGED <<img, vmVars>>
        /\ UNCHANGED nonVisual

CMSetMaxIter ==
    \E v \in MaxIters :
        /\ cm' = set_max_iter(cm, v)
        /\ cres' = [op |-> "set_max_iter", v |-> v, rgb |-> <<0, 0, 0>>]
        /\ UNCHANGED <<img, vmVars>>
        /\ UNCHANGED nonVisual

CMIterToRgb ==
    \E v \in ValueInputs :
        /\ cres' = [op |-> "iter_to_rgb", v |-> v, rgb |-> iter_to_rgb(cm, v)]
        /\ UNCHANGED <<cm, img, vmVars>>
        /\ UNCHANGED nonVisual

VNext == CMConstruct \/ CMSetMaxIter \/ CMIterToRgb

SpecColor == VInit /\ [][VNext]_vars

-----------------------------------------------------------------------------
(* Claims about the colour map *)

\* the last call was iter_to_rgb(cres.v) on the colour map cm
Mapped == cres.op = "iter_to_rgb"

\* C15 as stated: in every state reached through construction and
\* set_max_iter, iter_to_rgb(v) is palette entry 255 for every v >= max_iter
\* and palette entry 0 for every v <= 0.
C15_EndsOfRange ==
    Mapped =>
        /\ cres.v >= cm.max_iter => cres.rgb = Palette(cm.name, 255)
        /\ cres.v <= 0 => cres.rgb = Palette(cm.name, 0)

\* C15 amended: iter_to_rgb(v) is palette entry 255 for every v >= max_iter,
\* and palette entry 0 for every v <= 0 that is below max_iter; so
\* iter_to_rgb(max_iter) is palette entry 255 always and iter_to_rgb(0) is
\* palette entry 0 when max_iter > 0.
C15_EndsOfRangeBelowMax ==
    Mapped =>
        /\ cres.v >= cm.max_iter => cres.rgb = Palette(cm.name, 255)
        /\ cres.v <= 0 /\ cres.v < cm.max_iter
              => cres.rgb = Palette(cm.name, 0)
        /\ cres.v = 0 /\ cm.max_iter > 0 => cres.rgb = Palette(cm.name, 0)

\* iter_to_rgb(0) on a colour map whose max_iter was set to 0
C15_Witness ==
    /\ Mapped
    /\ cm.max_iter = 0 /\ cm.rec_max_col = 0
    /\ cres.v = 0
    /\ cres.rgb = Palette(cm.name, 255)

\* C16: for the Grayscale palette and any max_iter > 0, two calls
\* iter_to_rgb(a) then iter_to_rgb(b) with 0 <= a <= b <= max_iter give
\* results where no channel of the second is below that of the first.
C16_GrayscaleMonotonic ==
    [][ ( /\ Mapped /\ cres'.op = "iter_to_rgb" /\ cm' = cm
          /\ cm.name = "Grayscale" /\ cm.max_iter > 0
          /\ 0 <= cres.v /\ cres.v <= cres'.v /\ cres'.v <= cm.max_iter )
        => \A k \in 1..3 : cres.rgb[k] <= cres'.rgb[k] ]_vars

\* a Grayscale value strictly inside the range mapped strictly between the ends
C16_Witness ==
    /\ Mapped
    /\ cm.name = "Grayscale" /\ cm.max_iter = 3 * Unit
    /\ 0 < cres.v /\ cres.v < cm.max_iter
    /\ cres.rgb[1] > 0 /\ cres.rgb[1] < 255

\* C17: for 0 < value < max_iter, with scaled = value / max_iter * 255,
\* i = floor(scaled) capped at 254 and weight = round(100 * (scaled - i)) kept
\* in [0, 100], each channel of the result is
\* (palette[i] * (100 - weight) + palette[i + 1] * weight) / 100 rounded to
\* the nearest integer (either neighbour on a tie) and clamped to [0, 255].
C17_BlendRounded ==
    (Mapped /\ 0 < cres.v /\ cres.v < cm.max_iter) =>
        LET i == Min((255 * cres.v) \div cm.max_iter, 254)
            weight == Max(0, Min(100,
                RoundHalfEven(100 * (255 * cres.v - i * cm.max_iter),
                              cm.max_iter)))
        IN  \A k \in 1..3 :
              LET sum == Palette(cm.name, i)[k] * (100 - weight)
                         + Palette(cm.name, i + 1)[k] * weight
                  lo == Max(0, Min(255, (sum + 49) \div 100))
                  hi == Max(0, Min(255, (sum + 50) \div 100))
              IN  cres.rgb[k] \in {lo, hi}

-----------------------------------------------------------------------------
(* generate_bitmap_pil, visualization.py.  An image is its width, its      *)
(* height and its pixels in row-major order; a peak is None or a number.   *)

None == [some |-> FALSE, v |-> 0]
Some(v) == [some |-> TRUE, v |-> v]

\* Image.new('RGB', (1, 1), color=(0, 0, 0))
Dummy == [width |-> 1, height |-> 1, pixels |-> << <<0, 0, 0>> >>]

\* mutant: the normalize flag is not consulted
RenderLimit_any_peak(peak, normalize) ==
    IF peak.some /\ peak.v > 0 THEN peak.v ELSE ITERATION_MULTIPLIER_U

\* the iteration limit generate_bitmap_pil hands to set_max_iter
RenderLimit(peak, normalize) ==
    IF normalize /\ peak.some /\ peak.v > 0 THEN peak.v
    ELSE ITERATION_MULTIPLIER_U

\* the two loops over y_idx and x_idx with the colour map c
Rendered(grid, c) ==
    [width |-> grid.width, height |-> grid.height,
     pixels |-> [k \in 1..(grid.width * grid.height) |->
                    iter_to_rgb(c, grid.cells[k])]]

\* the image and the colour map after the limit was set
RenderWith(grid, c) == [img |-> Rendered(grid, c), cm |-> c]

\* mutant: no test for a grid without cells
generate_bitmap_pil_unguarded(grid, color_map, peak, normalize) ==
    RenderWith(grid,
               set_max_iter(color_map, RenderLimit(peak, normalize)))

\* generate_bitmap_pil: the image returned and the colour map afterwards
generate_bitmap_pil(grid, color_map, peak, normalize) ==
    IF grid.width = 0 \/ grid.height = 0
    THEN [img |-> Dummy, cm |-> color_map]
    ELSE RenderWith(grid,
                    set_max_iter(color_map, RenderLimit(peak, normalize)))

-----------------------------------------------------------------------------
(* The renderer as a state machine over a fixed grid *)

RMaxDim == 2

\* cell values 0, 3/Unit, 200.0 and 300.0
RValueSeq == <<0, 3, 200 * Unit, 300 * Unit>>

\* the grid of the given size whose cells run through RValueSeq from start
RGrid(width, height, start) ==
    IF width = 0 \/ height = 0 THEN NewValueMap(width, height)
    ELSE [width |-> width, height |-> height, present |-> TRUE,
          cells |-> [k \in 1..(width * height) |->
                        RValueSeq[((start + k) % Len(RValueSeq)) + 1]]]

Peaks == {None} \cup { Some(v) : v \in MaxIters }

RInit ==
    /\ KIdle /\ CIdle /\ EIdle /\ GIdle
    /\ \E width \in 0..RMaxDim, height \in 0..RMaxDim,
          start \in 1..Len(RValueSeq) :
          vm = RGrid(width, height, start)
    /\ res = [op |-> "idle", a |-> 0, b |-> 0, v |-> 0, err |-> "none",
              ret |-> 0, changed |-> FALSE, row |-> <<>>, dirty |-> FALSE]
    /\ \E name \in ColorNames : cm = NewColorMap(name, ITERATION_MULTIPLIER_U)
    /\ cres = [op |-> "init", v |-> 0, rgb |-> <<0, 0, 0>>]
    /\ img = [width |-> 0, height |-> 0, pixels |-> <<>>]

Drawn(peak, normalize, r) ==
    /\ cm' = r.cm
    /\ img' = r.img
    /\ cres' = [op |-> "generate", peak |-> peak, normalize |-> normalize,
                before |-> cm, err |-> "none"]
    /\ UNCHANGED vmVars
    /\ UNCHANGED nonVisual

Generate ==
    \E peak \in Peaks, normalize \in BOOLEAN :
        Drawn(peak, normalize, generate_bitmap_pil(vm, cm, peak, normalize))

RNext == CMConstruct \/ CMSetMaxIter \/ Generate

SpecRender == RInit /\ [][RNext]_vars

-----------------------------------------------------------------------------
(* Claims about the renderer *)

\* the last call was generate_bitmap_pil(vm, cres.before, cres.peak,
\* cres.normalize)
Generated == cres.op = "generate"

PixelAt(x, y) == img.pixels[y * img.width + x + 1]

\* C18: on a grid with non-zero dimensions generate_bitmap_pil leaves the
\* colour map's max_iter at the peak exactly when normalize is true and the
\* peak is a number > 0, and at 256.0 otherwise; the image has the grid's
\* width and height and pixel (x, y) is iter_to_rgb(grid(x, y)) under that
\* max_iter.
C18_RenderSetsLimit ==
    (Generated /\ vm.width # 0 /\ vm.height # 0) =>
        /\ IF cres.normalize /\ cres.peak.some /\ cres.peak.v > 0
           THEN cm.max_iter = cres.peak.v
           ELSE cm.max_iter = 256 * Unit
        /\ cm.name = cres.before.name
        /\ img.width = vm.width /\ img.height = vm.height
        /\ Len(img.pixels) = vm.width * vm.height
        /\ \A x \in 0..(vm.width - 1), y \in 0..(vm.height - 1) :
              PixelAt(x, y) = iter_to_rgb(cm, get_value(vm, x, y).ret)

\* a normalized render with a peak below 256.0 over a colour map that held
\* another limit, on a grid of more than one row and column
C18_Witness ==
    /\ Generated
    /\ vm.width = 2 /\ vm.height = 2
    /\ cres.normalize /\ cres.peak = Some(3 * Unit)
    /\ cres.before.max_iter = 0
    /\ cm.max_iter = 3 * Unit
    /\ PixelAt(0, 0) # PixelAt(1, 1)

\* C19: generate_bitmap_pil on a grid whose width or height is 0 does not
\* fail and returns a 1x1 image whose pixel is (0, 0, 0), whatever the colour
\* map, the peak and the normalize flag.
C19_EmptyGridDummy ==
    (Generated /\ (vm.width = 0 \/ vm.height = 0)) =>
        /\ cres.err = "none"
        /\ img.width = 1 /\ img.height = 1
        /\ img.pixels = << <<0, 0, 0>> >>

\* a normalized render of a grid of width 0 and height 2 over a colour map
\* whose max_iter is 0
C19_Witness ==
    /\ Generated
    /\ vm.width = 0 /\ vm.height = 2
    /\ cres.normalize /\ cres.peak = Some(3 * Unit)
    /\ cres.before.max_iter = 0
    /\ img = Dummy

\* C30: for a grid with non-zero dimensions the pixels generate_bitmap_pil
\* returns depend only on the grid, the palette, the peak and the normalize
\* flag: they are the pixels a colour map of that palette built anew with
\* the limit of the call gives, whatever max_iter earlier renders left in
\* the colour map handed in; after the call max_iter is > 0.
C30_RenderIgnoresEarlierLimit ==
    (Generated /\ vm.width # 0 /\ vm.height # 0) =>
        /\ img = Rendered(vm, NewColorMap(cres.before.name,
                                          RenderLimit(cres.peak,
                                                      cres.normalize)))
        /\ cm.max_iter > 0

\* a render without normalization over a colour map an earlier normalized
\* render had left at the limit 3.0: the cell 200.0 is drawn with an
\* intermediate colour of the range 0..256
C30_Witness ==
    /\ Generated
    /\ vm.width = 2 /\ vm.height = 2
    /\ ~cres.normalize /\ cres.peak = Some(3 * Unit)
    /\ cres.before.max_iter = 3 * Unit
    /\ cm.max_iter = ITERATION_MULTIPLIER_U
    /\ \E k \in DOMAIN img.pixels :
          /\ vm.cells[k] = 200 * Unit
          /\ img.pixels[k] = iter_to_rgb(NewColorMap(cm.name,
                                                     ITERATION_MULTIPLIER_U),
                                         200 * Unit)
          /\ img.pixels[k] # Palette(cm.name, 255)

-----------------------------------------------------------------------------
(* Further claims about ChladniSimulator *)

\* true when a is the first Len(a) entries of b
IsPrefix(a, b) ==
    Len(a) <= Len(b) /\ \A i \in DOMAIN a : a[i] = b[i]

\* C21: set_capacity(c) clamps c to at least 1; afterwards capacity is the
\* clamped value and the wave list has exactly that many entries, the earlier
\* entries kept as a prefix (growing appends default off waves, shrinking
\* drops the tail); modified becomes true exactly when the clamped capacity
\* differs from the previous one and is otherwise left unchanged.
C21_SetCapacity ==
    [][ sres'.op = "set_capacity" =>
          LET c == IF sres'.a < 1 THEN 1 ELSE sres'.a
          IN  /\ sim'.capacity = c
              /\ Len(sim'.wave_infos) = c
              /\ \/ IsPrefix(sim.wave_infos, sim'.wave_infos)
                 \/ IsPrefix(sim'.wave_infos, sim.wave_infos)
              /\ \A i \in DOMAIN sim'.wave_infos :
                    i > Len(sim.wave_infos) => sim'.wave_infos[i] = DefaultWave
              /\ sim'.modified = IF c # sim.capacity THEN TRUE ELSE sim.modified
      ]_vars

-----------------------------------------------------------------------------
(* Response of the kernel to cancellation *)

\* calls with an event that is clear or set at the call, on a grid of the
\* requested size
KCancelInit ==
    /\ VMIdle /\ CIdle /\ EIdle /\ VIdle /\ GIdle
    /\ \E d \in KWideDims, infos \in {<<WaveOn>>, <<WaveNeg>>},
          ev \in {"clear", "set"} :
          KStartState(NewValueMap(d[1], d[2]), infos, d[1], d[2], ev)

\* the loops of the kernel are taken one step after the other until the call
\* returns or raises
SpecKernelCancel == KCancelInit /\ [][KNext]_vars /\ WF_vars(KNext)

\* cells written since the signal was set; all of them when it was set at
\* the call
WrittenSinceSet ==
    IF stop_at >= 0 THEN Len(written) - stop_at ELSE Len(written)

\* C23: the signal is polled before each row and at every column x with
\* x % 64 = 0, so once it is set and stays set the kernel writes at most 64
\* further cells, and then returns.
C23_BoundedResponse ==
    /\ [](stop_event = "set" => WrittenSinceSet <= 64)
    /\ (stop_event = "set") ~> (pc = "done")

\* the signal was set between the poll of column 0 and the write of that cell:
\* 64 cells were written before the poll of column 64 ended the call
C23_Witness ==
    /\ Returned /\ stop_event = "set"
    /\ req_width > POLL_COLUMNS
    /\ stop_at = 0 /\ Len(written) = 64

-----------------------------------------------------------------------------
(* Further claims about the codec *)

\* C24: for every save_chl_file call that writes version 11, the bytes
\* written after the last wave record number exactly 4 * width * height for
\* the width and height written in the header (none when width * height = 0),
\* so load_chl_file accepts every version-11 file that save produces.
C24_PayloadMatchesHeader ==
    ( /\ cpc \in {"saved", "loaded"} /\ saved = "none"
      /\ SaveVersion(doc, save_level_map) = 11 )
    => /\ Len(file) - (23 + 13 * Len(doc.wave_infos))
            = 4 * doc.width * doc.height
       /\ load_chl_file(file).err = "none"

-----------------------------------------------------------------------------
(* Claims about the recalculation *)

\* the largest cell of a grid, 0 for a grid without cells
GridMax(g) == IF g.runs = <<>> THEN 0 ELSE RunMax(g.runs)

-----------------------------------------------------------------------------
(* Invariants claimed of ChladniSimulator *)

\* C26: after any sequence of reset, set_capacity, set_dimensions,
\* load_from_file (successful or failed, of any well-formed file, one with no
\* wave record included) and save_to_file, capacity equals the number of
\* entries of the wave list.
C26_CapacityIsLength == sim.capacity = Len(sim.wave_infos)

\* C27: after any sequence of reset, set_dimensions, recalculate,
\* load_from_file of any well-formed file and save_to_file, the simulator's
\* width and height lie in [10, 16384] and equal the width and height of its
\* grid.
C27_DimensionsInRange ==
    /\ sim.width \in 10..16384 /\ sim.height \in 10..16384
    /\ sim.value_map.width = sim.width
    /\ sim.value_map.height = sim.height

\* C28: after every completed operation (reset, set_dimensions, recalculate
\* with or without cancellation, load_from_file with or without a grid in
\* the file) the stored peak equals the largest cell of the current grid,
\* and is 0 when every cell is 0.
C28_PeakIsGridMaximum ==
    sres.op \in {"reset", "set_dimensions", "recalculate_pattern",
                 "recalculate_pattern_with_event", "load_from_file"}
      => sim.calculated_max_value =
             IF sim.value_map.runs = <<>> THEN 0 ELSE RunMax(sim.value_map.runs)

-----------------------------------------------------------------------------
(* ChladniApp, ui/main_app.py.  The handlers run one at a time on the Tk   *)
(* main loop; a render worker is a thread that runs                        *)
(* recalculate_pattern_with_event on the window's simulator and then posts *)
(* a message to render_queue.  Threads are numbered in the order they are  *)
(* started, render_thread is such a number, or 0 for None.                 *)

\* threads one run of the window starts
MaxThreads == 3

\* the 'Simulation' settings of the user: default_width, default_height,
\* default_capacity
def_width == 10 + 2

def_height == MIN_SIZE

def_capacity == 1 + 1

\* ChladniApp.apply_loaded_settings_to_simulator
apply_loaded_settings_to_simulator(s) ==
    [set_capacity(set_dimensions(s, def_width, def_height), def_capacity)
       EXCEPT !.normalize = TRUE, !.selected_color_map_name = "Spectrum"]

\* the values random.uniform hands to randomize_parameters
RandomWaves ==
    { [on |-> TRUE, amplitude |-> 1, frequency |-> 2, phase |-> 0],
      [on |-> TRUE, amplitude |-> -1, frequency |-> 3, phase |-> 90] }

\* ChladniSimulator.randomize_parameters, every wave that is on drawing w
randomize_parameters(s, w) ==
    [s EXCEPT !.wave_infos = [i \in DOMAIN s.wave_infos |->
                                 IF s.wave_infos[i].on THEN w
                                 ELSE s.wave_infos[i]],
              !.modified = TRUE]

\* self.render_thread and self.render_thread.is_alive()
Busy == app.render_thread # 0 /\ workers[app.render_thread] = "computing"

\* the threads inside recalculate_pattern_with_event
Computing == {t \in DOMAIN workers : workers[t] = "computing"}

\* the number of the thread threading.Thread(...) would create, 0 when the
\* run has started MaxThreads of them
NextThread ==
    IF \E t \in DOMAIN workers : workers[t] = "unborn"
    THEN CHOOSE t \in DOMAIN workers :
            /\ workers[t] = "unborn"
            /\ \A u \in DOMAIN workers : workers[u] = "unborn" => t <= u
    ELSE 0

Handled(op, refused) == [op |-> op, refused |-> refused]

\* a handler that returns at its test of the render thread, or with nothing
\* done
GuiReturned(op, refused) ==
    /\ gres' = Handled(op, refused)
    /\ UNCHANGED <<app, workers, sim>>

\* ChladniApp.on_cmd_render, called by the handler op that left the
\* simulator as s
on_cmd_render(op, s) ==
    IF Busy THEN GuiReturned(op, TRUE)
    ELSE /\ NextThread # 0
         /\ app' = [app EXCEPT !.render_thread = NextThread,
                               !.timers = @ + 1]
         /\ workers' = [workers EXCEPT ![NextThread] = "computing"]
         /\ sim' = s
         /\ gres' = Handled(op, FALSE)

\* ChladniApp.__init__
GInit ==
    /\ VMIdle /\ KIdle /\ CIdle /\ VIdle
    /\ sim = apply_loaded_settings_to_simulator(NewSimulator)
    /\ sres = Call("init", 0, 0, TRUE, "none")
    /\ app = [render_thread |-> 0, stop_render_event |-> FALSE,
              render_queue |-> <<>>, timers |-> 0]
    /\ workers = [t \in 1..MaxThreads |-> "unborn"]
    /\ gres = Handled("init", FALSE)

GuiRender ==
    /\ on_cmd_render("on_cmd_render", sim)
    /\ UNCHANGED nonGui

\* ChladniApp.on_cmd_stop_render
GuiStopRender ==
    /\ IF Busy
       THEN /\ app' = [app EXCEPT !.stop_render_event = TRUE]
            /\ gres' = Handled("on_cmd_stop_render", FALSE)
            /\ UNCHANGED <<workers, sim>>
       ELSE GuiReturned("on_cmd_stop_render", TRUE)
    /\ UNCHANGED nonGui

\* ChladniApp.on_cmd_randomize
GuiRandomize ==
    /\ IF Busy THEN GuiReturned("on_cmd_randomize", TRUE)
       ELSE \E w \in RandomWaves :
               on_cmd_render("on_cmd_randomize", randomize_parameters(sim, w))
    /\ UNCHANGED nonGui

\* what a PropertiesDialog returns: None (cancelled) or the values entered
DialogResults ==
    { [some |-> FALSE, width |-> 0, height |-> 0, capacity |-> 0] }
      \cup { [some |-> TRUE, width |-> w, height |-> def_height,
              capacity |-> c] :
                w \in {MIN_SIZE, def_width}, c \in {1, def_capacity} }

\* on_view_properties, lines 338-345: the simulator after the dimensions and
\* the capacity of the dialog were applied (the normalize flag is left as the
\* dialog showed it)
Applied(s, result) ==
    LET s1 == IF s.width # result.width \/ s.height # result.height
              THEN set_dimensions(s, result.width, result.height) ELSE s
        s2 == IF s1.capacity # result.capacity
              THEN set_capacity(s1, result.capacity) ELSE s1
    IN  [s2 EXCEPT !.modified = TRUE]

\* ChladniApp.on_view_properties
GuiProperties ==
    /\ IF Busy THEN GuiReturned("on_view_properties", TRUE)
       ELSE \E result \in DialogResults :
               IF result.some /\ (sim.width # result.width
                                    \/ sim.height # result.height
                                    \/ sim.capacity # result.capacity)
               THEN on_cmd_render("on_view_properties", Applied(sim, result))
               ELSE GuiReturned("on_view_properties", FALSE)
    /\ UNCHANGED nonGui

\* ChladniApp.on_file_export_image: the image is drawn from the grid
GuiExport ==
    /\ GuiReturned("on_file_export_image", Busy)
    /\ UNCHANGED nonGui

\* ChladniApp._ask_save_if_modified with the user's answer and, for "yes",
\* whether on_file_save could store the file: [go, sim]
ask_save_if_modified(s, answer, stored) ==
    IF ~s.modified THEN [go |-> TRUE, sim |-> s]
    ELSE IF answer = "yes"
    THEN [go |-> save_to_file(s, "out.chl", TRUE, stored).ret,
          sim |-> save_to_file(s, "out.chl", TRUE, stored).sim]
    ELSE [go |-> answer = "no", sim |-> s]

\* on_file_new after _ask_save_if_modified returned a
NewDocument(a) ==
    /\ sim' = IF a.go THEN apply_loaded_settings_to_simulator(reset(a.sim))
              ELSE a.sim
    /\ gres' = Handled("on_file_new", FALSE)
    /\ UNCHANGED <<app, workers>>

\* ChladniApp.on_file_new
GuiFileNew ==
    /\ \E answer \in {"yes", "no", "cancel"}, stored \in BOOLEAN :
          NewDocument(ask_save_if_modified(sim, answer, stored))
    /\ UNCHANGED nonGui

\* the files the user picks in the dialog of on_file_open
OpenInputs ==
    { [found |-> FALSE, bytes |-> <<>>],
      [found |-> TRUE, bytes |-> FileLevelMap] }

\* on_file_open after _ask_save_if_modified returned a; picked tells whether
\* the file dialog returned a path
OpenDocument(a, picked, input) ==
    /\ sim' = IF a.go /\ picked THEN load_from_file(a.sim, "in.chl", input).sim
              ELSE a.sim
    /\ gres' = Handled("on_file_open", FALSE)
    /\ UNCHANGED <<app, workers>>

\* ChladniApp.on_file_open
GuiFileOpen ==
    /\ \E answer \in {"no", "cancel"}, picked \in BOOLEAN,
          input \in OpenInputs :
          OpenDocument(ask_save_if_modified(sim, answer, FALSE), picked, input)
    /\ UNCHANGED nonGui

\* ChladniApp._apply_cell_edit on the frequency column of the first wave.
\* The values entered are whole numbers from 1 on, which
\* max(MIN_FREQ_RATIO, .) leaves alone; MAX_FREQ_RATIO is 20.0
GuiCellEdit ==
    /\ sim.wave_infos # <<>>
    /\ \E value \in {2, 25} :
          LET clamped_value == Min(value, 20)
          IN  sim' = IF sim.wave_infos[1].frequency # clamped_value
                     THEN [sim EXCEPT !.wave_infos[1].frequency = clamped_value,
                                      !.modified = TRUE]
                     ELSE sim
    /\ gres' = Handled("_apply_cell_edit", FALSE)
    /\ UNCHANGED <<app, workers>>
    /\ UNCHANGED nonGui

\* ChladniApp._render_worker, from the call of
\* recalculate_pattern_with_event to the end of the thread.  The kernel saw
\* the signal after rows rows when it is set by now.
RenderWorker ==
    /\ \E t \in Computing :
       \E rows \in IF app.stop_render_event THEN {0, sim.height}
                   ELSE {sim.height} :
          /\ sim' = recalculate_pattern_with_event(sim, rows,
                                                   app.stop_render_event)
          /\ app' = [app EXCEPT !.render_queue =
                        Append(@, IF app.stop_render_event THEN "stopped"
                                  ELSE "success")]
          /\ workers' = [workers EXCEPT ![t] = "dead"]
    /\ gres' = Handled("_render_worker", FALSE)
    /\ UNCHANGED nonGui

\* ChladniApp._check_render_queue with on_render_complete: a timer set by
\* on_cmd_render fires; with no message it is set again
GuiCheckRenderQueue ==
    /\ app.timers > 0
    /\ IF app.render_queue = <<>>
       THEN UNCHANGED <<app, sim>>
       ELSE /\ app' = [app EXCEPT !.render_queue = Tail(@),
                                  !.timers = @ - 1,
                                  !.render_thread = 0,
                                  !.stop_render_event = FALSE]
            /\ sim' = IF Head(app.render_queue) = "success"
                      THEN [sim EXCEPT !.modified = TRUE] ELSE sim
    /\ gres' = Handled("_check_render_queue", FALSE)
    /\ UNCHANGED workers
    /\ UNCHANGED nonGui

GNext ==
    \/ GuiRender
    \/ GuiStopRender
    \/ GuiRandomize
    \/ GuiProperties
    \/ GuiExport
    \/ GuiFileNew
    \/ GuiFileOpen
    \/ GuiCellEdit
    \/ RenderWorker
    \/ GuiCheckRenderQueue

SpecGui == GInit /\ [][GNext]_vars

-----------------------------------------------------------------------------
(* Claims about the window *)

\* what a computing worker reads and writes: the grid, the dimensions and
\* the wave list of the simulator
Swept == <<sim.value_map, sim.width, sim.height, sim.wave_infos>>

\* C29: at most one render worker computes at a time, and while a worker is
\* computing no other action resizes, clears or replaces the simulator's
\* grid or changes its dimensions or wave list: a render, randomize,
\* properties, export, new-file or open-file request issued during a render
\* is refused, no worker is started by it and the simulator is left alone.
C29_RenderExclusive ==
    /\ [](Cardinality(Computing) <= 1)
    /\ [][ (Computing # {} /\ gres'.op # "_render_worker") =>
              /\ Swept' = Swept
              /\ Computing' \subseteq Computing
              /\ gres'.op \in {"on_cmd_render", "on_cmd_randomize",
                               "on_view_properties", "on_file_export_image",
                               "on_file_new", "on_file_open"}
                   => gres'.refused
         ]_vars

====
